---- MODULE Spec2Model ----
(***************************************************************************)
(* The cleanup ledger and the resource factories of                        *)
(* tempest/scenario/manager.py (ScenarioTest and its subclasses).          *)
(*                                                                         *)
(* One test instance is modelled: setUp, a test body made of factory calls *)
(* and direct deletions, then the teardown (the cleanup stack run LIFO,    *)
(* ending with the drain of the wait descriptors).  The remote services    *)
(* are the environment: every remote call is logged, and its outcome is    *)
(* either decided by the remote state or drawn from a small set.           *)
(***************************************************************************)
EXTENDS Integers, Sequences, FiniteSets, TLC

\* ------------------------------------------------------------------ bounds
\* Remote resources one test may create.
MaxRes == 2
\* Cleanups the test body registers itself, besides those of the factories.
MaxDirect == 1
\* Direct deletions (terminate_instance, delete_container) in one test body.
MaxBodyDeletes == 1

VARIABLES
    cls,            \* the class of the test instance
    phase,          \* "new", "body", "teardown", "done": where the test is
    cleanups,       \* the cleanup stack of the test case (self.addCleanup)
    cleanup_waits,  \* self.cleanup_waits: the wait descriptors, in order
    remote,         \* the remote resources, indexed by their id
    log,            \* every registration, cleanup run and remote call so far
    errors          \* what the test result has recorded (body and teardown)

vars == <<cls, phase, cleanups, cleanup_waits, remote, log, errors>>

\* ----------------------------------------------------------------- helpers
Last(s) == s[Len(s)]
Front(s) == SubSeq(s, 1, Len(s) - 1)

RECURSIVE Reverse(_)
Reverse(s) == IF s = <<>> THEN <<>> ELSE Append(Reverse(Tail(s)), Head(s))

\* The positions of the log whose event satisfies a test.
Positions(P(_)) == {i \in 1..Len(log) : P(log[i])}

\* A cleanup action: the callable (by the name the source gives it), whether
\* it is called through delete_wrapper, and the resource it is about.
Act(call, wrapped, res) == [call |-> call, wrapped |-> wrapped, res |-> res]

\* A log event.  via is "body", "cleanup" (the LIFO phase) or "drain".
Ev(ev, call, res, out, param, via) ==
    [ev |-> ev, call |-> call, res |-> res, out |-> out, param |-> param,
     via |-> via]

\* The test instance and the remote world, as the value the operations
\* below transform; exc is the exception in flight ("none": no exception).
Self ==
    [cleanups |-> cleanups, cleanup_waits |-> cleanup_waits,
     remote |-> remote, log |-> log, exc |-> "none", msg |-> <<>>,
     ret |-> <<>>]

Emit(t, e) == [t EXCEPT !.log = Append(@, e)]
Raise(t, exc) == [t EXCEPT !.exc = exc]

DeleteCalls ==
    {"delete_keypair", "delete_server", "delete_volume", "delete_image",
     "delete_network", "delete_container", "delete_object",
     "delete_security_group", "delete_security_group_rule", "delete_subnet",
     "delete_router", "delete_pool", "delete_member", "delete_vip",
     "delete_floatingip"}
WaiterCalls == {"wait_for_server_termination", "wait_for_resource_deletion"}

\* -------------------------------------------------- the remote services
\* create_X: a new resource with the attributes attr, or the exception exc
\* the service answers with (its message msg; label names the answer in the
\* log).
remote_create_with(t, kind, attr, exc, label, msg) ==
    IF t.exc # "none" THEN t
    ELSE LET r == Len(t.remote) + 1 IN
         IF exc # "ok"
         THEN [Emit(t, Ev("create", kind, 0, exc, label, "body"))
                   EXCEPT !.exc = exc, !.msg = msg]
         ELSE Emit([t EXCEPT !.remote =
                        Append(@, [kind |-> kind, st |-> "active",
                                   held |-> FALSE, attr |-> attr])],
                   Ev("create", kind, r, "ok", label, "body"))

remote_create(t, kind, out) == remote_create_with(t, kind, <<>>, out, "", <<>>)

\* delete_X(id): NotFound when the resource is gone; otherwise the service
\* refuses (Forbidden), or accepts and the resource starts to disappear
\* ("deleting"), or accepts and the resource never disappears ("zombie").
remote_delete(t, call, r, oracle, via) ==
    IF t.exc # "none" THEN t
    ELSE LET st == t.remote[r].st
             out == IF st = "gone" THEN "NotFound"
                    ELSE IF oracle = "refuse" THEN "Forbidden"
                    ELSE "ok"
             st2 == IF out = "ok" /\ st = "active"
                    THEN (IF oracle = "zombie" THEN "zombie" ELSE "deleting")
                    ELSE st
             t1 == Emit([t EXCEPT !.remote[r].st = st2],
                        Ev("remote_delete", call, r, out, "", via))
         IN IF out = "ok" THEN t1 ELSE Raise(t1, out)

\* wait_for_server_termination, wait_for_resource_deletion: return once the
\* resource is gone, raise TimeoutException when it is still there at the
\* deadline.
waiter(t, call, r, param, via) ==
    IF t.exc # "none" THEN t
    ELSE LET st == t.remote[r].st
             out == IF st \in {"gone", "deleting"} THEN "ok"
                    ELSE "TimeoutException"
             t1 == Emit([t EXCEPT !.remote[r].st =
                            IF st = "deleting" THEN "gone" ELSE st],
                        Ev("waiter", call, r, out, param, via))
         IN IF out = "ok" THEN t1 ELSE Raise(t1, out)

\* wait_for_server_status, wait_for_volume_status, wait_for_image_status:
\* the readiness wait of a factory; ok is whether the state is reached.
wait_for_status(t, call, r, ok) ==
    IF t.exc # "none" THEN t
    ELSE LET out == IF ok THEN "ok" ELSE "TimeoutException"
             t1 == Emit(t, Ev("ready_wait", call, r, out, "", "body"))
         IN IF ok THEN t1 ELSE Raise(t1, out)

\* assertEqual on the response of a create (name, status, cidr, ...).
assertEqual(t, what, r, ok) ==
    IF t.exc # "none" THEN t
    ELSE LET out == IF ok THEN "ok" ELSE "AssertionError"
             t1 == Emit(t, Ev("assert", what, r, out, "", "body"))
         IN IF ok THEN t1 ELSE Raise(t1, out)

\* The factory returns the resource to the test, which now holds it.
Return(t, r) ==
    IF t.exc # "none" THEN t ELSE [t EXCEPT !.remote[r].held = TRUE]

\* ------------------------------------------------------ cleanup ledger
\* Mutant: the cleanup is put under the stack (a queue, not a stack).
addCleanup_bottom(t, a) ==
    IF t.exc # "none" THEN t
    ELSE Emit([t EXCEPT !.cleanups = <<a>> \o @],
              Ev("register", a.call, a.res,
                 IF a.wrapped THEN "wrapped" ELSE "bare", "", "body"))

\* self.addCleanup(callable, *args): push on the cleanup stack.
addCleanup(t, a) ==
    IF t.exc # "none" THEN t
    ELSE Emit([t EXCEPT !.cleanups = Append(@, a)],
              Ev("register", a.call, a.res,
                 IF a.wrapped THEN "wrapped" ELSE "bare", "", "body"))

\* Mutant: every exception of the delete is ignored.
delete_wrapper_ignore_all(t, call, r, oracle, via) ==
    LET t1 == remote_delete(t, call, r, oracle, via)
    IN IF t.exc = "none" THEN Raise(t1, "none") ELSE t1

\* delete_wrapper(delete_thing, *args): NotFound is ignored, anything else
\* propagates.
delete_wrapper(t, call, r, oracle, via) ==
    LET t1 == remote_delete(t, call, r, oracle, via)
    IN IF t.exc = "none" /\ t1.exc = "NotFound" THEN Raise(t1, "none") ELSE t1

\* Mutant: the resource id is always kept under 'id'.
wait_dict_by_id(waiter_callable, thing_id, thing_id_param) ==
    ("id" :> thing_id) @@ ("waiter_callable" :> waiter_callable)

\* The wait descriptor: a dict with the waiter under 'waiter_callable' and
\* the resource id under the name the waiter takes it by.
wait_dict(waiter_callable, thing_id, thing_id_param) ==
    (thing_id_param :> thing_id) @@ ("waiter_callable" :> waiter_callable)

\* Mutant: the cleanup is put under the stack, to run after the drain.
addCleanup_with_wait_bottom(t, waiter_callable, thing_id, thing_id_param, cleanup) ==
    IF t.exc # "none" THEN t
    ELSE LET t1 == addCleanup(t, cleanup)
             t2 == [t1 EXCEPT !.cleanups = <<cleanup>> \o Front(@),
                              !.cleanup_waits =
                                  Append(@, wait_dict(waiter_callable,
                                                      thing_id,
                                                      thing_id_param))]
         IN Emit(t2, Ev("register_wait", waiter_callable, thing_id, "",
                        thing_id_param, "body"))

\* Mutant: the cleanup is registered twice.
addCleanup_with_wait_twice(t, waiter_callable, thing_id, thing_id_param, cleanup) ==
    IF t.exc # "none" THEN t
    ELSE LET t1 == addCleanup(addCleanup(t, cleanup), cleanup)
             t2 == [t1 EXCEPT !.cleanup_waits =
                        Append(@, wait_dict(waiter_callable, thing_id,
                                            thing_id_param))]
         IN Emit(t2, Ev("register_wait", waiter_callable, thing_id, "",
                        thing_id_param, "body"))

\* addCleanup_with_wait: the cleanup goes on the cleanup stack at once, the
\* wait descriptor to the end of cleanup_waits.
addCleanup_with_wait(t, waiter_callable, thing_id, thing_id_param, cleanup) ==
    IF t.exc # "none" THEN t
    ELSE LET t1 == addCleanup(t, cleanup)
             t2 == [t1 EXCEPT !.cleanup_waits =
                        Append(@, wait_dict(waiter_callable, thing_id,
                                            thing_id_param))]
         IN Emit(t2, Ev("register_wait", waiter_callable, thing_id, "",
                        thing_id_param, "body"))

\* _wait_for_cleanups, from the i-th wait descriptor on: pop the waiter out
\* of the dict and call it with what is left as keyword arguments.  Nothing
\* is caught: a raising waiter ends the loop, and so does a dict whose
\* waiter was popped before.
RECURSIVE wait_for_cleanups_from(_, _)
wait_for_cleanups_from(t, i) ==
    IF t.exc # "none" \/ i > Len(t.cleanup_waits) THEN t
    ELSE IF "waiter_callable" \notin DOMAIN t.cleanup_waits[i]
    THEN Raise(t, "KeyError")
    ELSE LET wait == t.cleanup_waits[i]
             waiter_callable == wait["waiter_callable"]
             kwargs == [k \in DOMAIN wait \ {"waiter_callable"} |-> wait[k]]
             t1 == [t EXCEPT !.cleanup_waits[i] = kwargs]
             k == CHOOSE k \in DOMAIN kwargs : TRUE
         IN wait_for_cleanups_from(
                waiter(t1, waiter_callable, kwargs[k], k, "drain"), i + 1)

\* Mutant: the wait descriptors are drained from the last to the first.
RECURSIVE wait_for_cleanups_down(_, _)
wait_for_cleanups_down(t, i) ==
    IF t.exc # "none" \/ i < 1 THEN t
    ELSE LET wait == t.cleanup_waits[i]
             waiter_callable == wait["waiter_callable"]
             kwargs == [k \in DOMAIN wait \ {"waiter_callable"} |-> wait[k]]
             t1 == [t EXCEPT !.cleanup_waits[i] = kwargs]
             k == CHOOSE k \in DOMAIN kwargs : TRUE
         IN wait_for_cleanups_down(
                waiter(t1, waiter_callable, kwargs[k], k, "drain"), i - 1)

wait_for_cleanups_reversed(t) ==
    wait_for_cleanups_down(t, Len(t.cleanup_waits))

\* Mutant: an exception of a waiter is caught and dropped.
wait_for_cleanups_swallow(t) ==
    LET t1 == wait_for_cleanups_from(t, 1)
    IN IF t.exc = "none" THEN Raise(t1, "none") ELSE t1

\* Mutant: the drain goes on after a waiter raised, and raises at its end.
RECURSIVE wait_for_cleanups_best_effort_from(_, _, _)
wait_for_cleanups_best_effort_from(t, i, exc) ==
    IF i > Len(t.cleanup_waits) THEN Raise(t, exc)
    ELSE LET wait == t.cleanup_waits[i]
             waiter_callable == wait["waiter_callable"]
             kwargs == [k \in DOMAIN wait \ {"waiter_callable"} |-> wait[k]]
             t1 == [t EXCEPT !.cleanup_waits[i] = kwargs]
             k == CHOOSE k \in DOMAIN kwargs : TRUE
             t2 == waiter(t1, waiter_callable, kwargs[k], k, "drain")
         IN wait_for_cleanups_best_effort_from(
                Raise(t2, "none"), i + 1,
                IF exc = "none" THEN t2.exc ELSE exc)

wait_for_cleanups_best_effort(t) ==
    IF t.exc # "none" THEN t
    ELSE wait_for_cleanups_best_effort_from(t, 1, "none")

_wait_for_cleanups(t) == wait_for_cleanups_from(t, 1)

\* ------------------------------------------------------------- factories
\* fail names the step of the factory that raises ("none": no step does).
Outcome(fail, step, exc) == IF fail = step THEN exc ELSE "ok"

create_keypair(t, fail) ==
    LET r == Len(t.remote) + 1
        t1 == remote_create(t, "keypair", Outcome(fail, "create", "Exception"))
        t2 == addCleanup(t1, Act("delete_keypair", FALSE, r))
    IN Return(t2, r)

\* Mutant: the termination wait is registered after the delete.
create_server_wait_first(t, wait_on_boot, wait_on_delete, fail) ==
    LET r == Len(t.remote) + 1
        t1 == remote_create(t, "server", Outcome(fail, "create", "Exception"))
        t2 == addCleanup_with_wait(t1, "wait_for_server_termination", r,
                                   "server_id", Act("delete_server", TRUE, r))
        t3 == IF wait_on_delete
              THEN addCleanup(t2, Act("wait_for_server_termination", FALSE, r))
              ELSE t2
        t4 == IF wait_on_boot
              THEN wait_for_status(t3, "wait_for_server_status", r,
                                   fail # "wait")
              ELSE t3
        t5 == assertEqual(t4, "name", r, fail # "assert")
    IN Return(t5, r)

\* Mutant: no wait descriptor is queued when the wait is synchronous.
create_server_one_wait(t, wait_on_boot, wait_on_delete, fail) ==
    LET r == Len(t.remote) + 1
        t1 == remote_create(t, "server", Outcome(fail, "create", "Exception"))
        t2 == IF wait_on_delete
              THEN addCleanup(
                       addCleanup(t1, Act("wait_for_server_termination",
                                          FALSE, r)),
                       Act("delete_server", TRUE, r))
              ELSE addCleanup_with_wait(t1, "wait_for_server_termination", r,
                                        "server_id",
                                        Act("delete_server", TRUE, r))
        t4 == IF wait_on_boot
              THEN wait_for_status(t2, "wait_for_server_status", r,
                                   fail # "wait")
              ELSE t2
        t5 == assertEqual(t4, "name", r, fail # "assert")
    IN Return(t5, r)

create_server(t, wait_on_boot, wait_on_delete, fail) ==
    LET r == Len(t.remote) + 1
        t1 == remote_create(t, "server", Outcome(fail, "create", "Exception"))
        t2 == IF wait_on_delete
              THEN addCleanup(t1, Act("wait_for_server_termination", FALSE, r))
              ELSE t1
        t3 == addCleanup_with_wait(t2, "wait_for_server_termination", r,
                                   "server_id", Act("delete_server", TRUE, r))
        t4 == IF wait_on_boot
              THEN wait_for_status(t3, "wait_for_server_status", r,
                                   fail # "wait")
              ELSE t3
        t5 == assertEqual(t4, "name", r, fail # "assert")
    IN Return(t5, r)

\* Mutant: the wait is queued for the drain whatever the caller asked for.
create_volume_always_async(t, wait_on_delete, fail) ==
    LET r == Len(t.remote) + 1
        t0 == IF t.exc # "none" THEN t
              ELSE Emit(t, Ev("option", "create_volume", r, "",
                              IF wait_on_delete THEN "wait_on_delete"
                              ELSE "no_wait", "body"))
        t1 == remote_create(t0, "volume", Outcome(fail, "create", "Exception"))
        t2 == addCleanup_with_wait(t1, "wait_for_resource_deletion", r,
                                   "id", Act("delete_volume", TRUE, r))
        t3 == assertEqual(t2, "display_name", r, fail # "assert")
        t4 == wait_for_status(t3, "wait_for_volume_status", r, fail # "wait")
    IN Return(t4, r)

\* create_volume; the log notes the wait preference of the caller.
create_volume(t, wait_on_delete, fail) ==
    LET r == Len(t.remote) + 1
        t0 == IF t.exc # "none" THEN t
              ELSE Emit(t, Ev("option", "create_volume", r, "",
                              IF wait_on_delete THEN "wait_on_delete"
                              ELSE "no_wait", "body"))
        t1 == remote_create(t0, "volume", Outcome(fail, "create", "Exception"))
        t2 == IF wait_on_delete
              THEN addCleanup(
                       addCleanup(t1, Act("wait_for_resource_deletion",
                                          FALSE, r)),
                       Act("delete_volume", TRUE, r))
              ELSE addCleanup_with_wait(t1, "wait_for_resource_deletion", r,
                                        "id", Act("delete_volume", TRUE, r))
        t3 == assertEqual(t2, "display_name", r, fail # "assert")
        t4 == wait_for_status(t3, "wait_for_volume_status", r, fail # "wait")
    IN Return(t4, r)

\* _image_create: the image file is opened and its close registered first.
_image_create(t, fail) ==
    LET r == Len(t.remote) + 1
        t0 == IF fail = "open" THEN Raise(t, "IOError") ELSE t
        t1 == addCleanup(t0, Act("close", FALSE, r))
        t2 == remote_create(t1, "image", Outcome(fail, "create", "Exception"))
        t3 == addCleanup(t2, Act("delete_image", FALSE, r))
        t4 == assertEqual(t3, "status", r, fail # "assert")
    IN Return(t4, r)

create_server_snapshot(t, fail) ==
    LET r == Len(t.remote) + 1
        t1 == remote_create(t, "image", Outcome(fail, "create", "Exception"))
        t2 == wait_for_status(t1, "wait_for_image_status", r, fail # "wait")
        t3 == addCleanup_with_wait(t2, "wait_for_resource_deletion", r, "id",
                                   Act("delete_image", TRUE, r))
        t4 == assertEqual(t3, "name", r, fail # "assert")
    IN Return(t4, r)

_create_network(t, fail) ==
    LET r == Len(t.remote) + 1
        t1 == remote_create(t, "network", Outcome(fail, "create", "Exception"))
        t2 == assertEqual(t1, "name", r, fail # "assert")
        t3 == addCleanup(t2, Act("delete_network", TRUE, r))
    IN Return(t3, r)

\* Mutant: the container's delete is left to the test.
create_container_unregistered(t, fail) ==
    LET r == Len(t.remote) + 1
        t1 == remote_create(t, "container",
                            Outcome(fail, "create", "Exception"))
        t2 == IF t1.exc = "none" /\ fail = "list"
              THEN Raise(t1, "Exception") ELSE t1
    IN Return(t2, r)

\* SwiftScenarioTest.create_container: the container is listed (a remote
\* call, which may raise) before its cleanup is registered.
create_container(t, fail) ==
    LET r == Len(t.remote) + 1
        t1 == remote_create(t, "container",
                            Outcome(fail, "create", "Exception"))
        t2 == IF t1.exc = "none" /\ fail = "list"
              THEN Raise(t1, "Exception") ELSE t1
        t3 == addCleanup(t2, Act("delete_container", TRUE, r))
    IN Return(t3, r)

\* SwiftScenarioTest.delete_container: the bare remote delete.
delete_container(t, r, oracle) ==
    remote_delete(t, "delete_container", r, oracle, "body")

\* SwiftScenarioTest.upload_object_to_container.
upload_object_to_container(t, fail) ==
    LET r == Len(t.remote) + 1
        t1 == remote_create(t, "object", Outcome(fail, "create", "Exception"))
        t2 == addCleanup(t1, Act("delete_object", TRUE, r))
    IN Return(t2, r)

\* SwiftScenarioTest.delete_object: the bare remote delete, then the listing
\* of the container, asserted not to hold the object any more.
delete_object(t, r, oracle, fail) ==
    LET t1 == remote_delete(t, "delete_object", r, oracle, "body")
    IN assertEqual(t1, "not_present_obj", r, fail # "assert")

\* Mutant: the wait for the node to be unprovisioned comes first.
terminate_instance_provision_first(t, r, oracle, fail) ==
    LET t1 == remote_delete(t, "delete_server", r, oracle, "body")
        t2 == wait_for_status(t1, "wait_provisioning_state", r,
                              fail # "provision")
    IN wait_for_status(t2, "wait_power_state", r, fail # "power")

\* BaremetalScenarioTest.terminate_instance: the bare remote delete, then
\* the waits for the node to power off and to be unprovisioned.
terminate_instance(t, r, oracle, fail) ==
    LET t1 == remote_delete(t, "delete_server", r, oracle, "body")
        t2 == wait_for_status(t1, "wait_power_state", r, fail # "power")
    IN wait_for_status(t2, "wait_provisioning_state", r, fail # "provision")

\* --------------------------------------------------------- the test case
\* Running one cleanup of the stack: the callable it names, on its resource.
RunCleanup(t, a, oracle) ==
    IF a.call = "_wait_for_cleanups" THEN _wait_for_cleanups(t)
    ELSE IF a.call \in DeleteCalls
    THEN (IF a.wrapped
          THEN delete_wrapper(t, a.call, a.res, oracle, "cleanup")
          ELSE remote_delete(t, a.call, a.res, oracle, "cleanup"))
    ELSE IF a.call \in WaiterCalls THEN waiter(t, a.call, a.res, "", "cleanup")
    ELSE t

\* Mutant: the cleanups run in the order of their registration.
doCleanupsStep_fifo(t, oracle) ==
    LET a == Head(t.cleanups)
        t0 == Emit([t EXCEPT !.cleanups = Tail(@)],
                   Ev("run", a.call, a.res, "", "", "cleanup"))
    IN RunCleanup(t0, a, oracle)

\* The cleanup stack is run from its top; an exception of a cleanup is
\* recorded in the test result and the next cleanup runs.
doCleanupsStep(t, oracle) ==
    LET a == Last(t.cleanups)
        t0 == Emit([t EXCEPT !.cleanups = Front(@)],
                   Ev("run", a.call, a.res, "", "", "cleanup"))
    IN RunCleanup(t0, a, oracle)

Commit(t) ==
    /\ cls' = cls
    /\ cleanups' = t.cleanups
    /\ cleanup_waits' = t.cleanup_waits
    /\ remote' = t.remote
    /\ log' = t.log

\* A step of the test body: an exception ends the body and is recorded.
BodyStep(t) ==
    /\ Commit(t)
    /\ IF t.exc = "none"
       THEN phase' = "body" /\ errors' = errors
       ELSE /\ phase' = "teardown"
            /\ errors' = Append(errors, [phase |-> "body", exc |-> t.exc,
                                         call |-> "test"])

Fails == {"none", "create", "wait", "assert"}
Oracles == {"deleting", "zombie", "refuse"}
Held(kind) == {r \in 1..Len(remote) : remote[r].kind = kind /\ remote[r].held}
BodyDeletes == Cardinality(Positions(LAMBDA e : e.ev = "remote_delete"
                                                  /\ e.via = "body"))
Directs == Cardinality(Positions(LAMBDA e : e.ev = "register"
                                              /\ e.call = "callable"))
CanCreate == phase = "body" /\ Len(remote) < MaxRes

Classes ==
    {"ScenarioTest", "NetworkScenarioTest", "BaremetalScenarioTest",
     "SwiftScenarioTest"}

Init ==
    /\ cls \in Classes
    /\ phase = "new"
    /\ cleanups = <<>>
    /\ cleanup_waits = <<>>
    /\ remote = <<>>
    /\ log = <<>>
    /\ errors = <<>>

\* Mutant: setUp registers the drain and leaves the list of waits as it
\* finds it.
setUp_keep_waits ==
    /\ phase = "new"
    /\ phase' = "body"
    /\ errors' = errors
    /\ Commit(addCleanup(Self, Act("_wait_for_cleanups", FALSE, 0)))

\* ScenarioTest.setUp: an empty list of waits, and the drain registered as
\* the first cleanup.
setUp ==
    /\ phase = "new"
    /\ phase' = "body"
    /\ errors' = errors
    /\ Commit(addCleanup([Self EXCEPT !.cleanup_waits = <<>>],
                         Act("_wait_for_cleanups", FALSE, 0)))

CreateKeypair ==
    /\ CanCreate
    /\ \E fail \in {"none", "create"} : BodyStep(create_keypair(Self, fail))

CreateServer ==
    /\ CanCreate
    /\ \E wait_on_boot \in BOOLEAN, wait_on_delete \in BOOLEAN, fail \in Fails :
          BodyStep(create_server(Self, wait_on_boot, wait_on_delete, fail))

CreateVolume ==
    /\ CanCreate
    /\ \E wait_on_delete \in BOOLEAN, fail \in Fails :
          BodyStep(create_volume(Self, wait_on_delete, fail))

ImageCreate ==
    /\ CanCreate
    /\ \E fail \in {"none", "open", "create", "assert"} :
          BodyStep(_image_create(Self, fail))

CreateServerSnapshot ==
    /\ CanCreate
    /\ \E fail \in Fails : BodyStep(create_server_snapshot(Self, fail))

CreateNetwork ==
    /\ CanCreate /\ cls = "NetworkScenarioTest"
    /\ \E fail \in {"none", "create", "assert"} :
          BodyStep(_create_network(Self, fail))

CreateContainer ==
    /\ CanCreate /\ cls = "SwiftScenarioTest"
    /\ \E fail \in {"none", "create", "list"} :
          BodyStep(create_container(Self, fail))

DeleteContainer ==
    /\ phase = "body" /\ BodyDeletes < MaxBodyDeletes
    /\ cls = "SwiftScenarioTest"
    /\ \E r \in Held("container"), oracle \in Oracles :
          BodyStep(delete_container(Self, r, oracle))

UploadObject ==
    /\ CanCreate /\ Held("container") # {} /\ cls = "SwiftScenarioTest"
    /\ \E fail \in {"none", "create"} :
          BodyStep(upload_object_to_container(Self, fail))

DeleteObject ==
    /\ phase = "body" /\ BodyDeletes < MaxBodyDeletes
    /\ cls = "SwiftScenarioTest"
    /\ \E r \in Held("object"), oracle \in Oracles,
          fail \in {"none", "assert"} :
          BodyStep(delete_object(Self, r, oracle, fail))

TerminateInstance ==
    /\ phase = "body" /\ BodyDeletes < MaxBodyDeletes
    /\ cls = "BaremetalScenarioTest"
    /\ \E r \in Held("server"), oracle \in Oracles,
          fail \in {"none", "power", "provision"} :
          BodyStep(terminate_instance(Self, r, oracle, fail))

\* The test registers a cleanup of its own.
AddCleanup ==
    /\ phase = "body" /\ Directs < MaxDirect
    /\ BodyStep(addCleanup(Self, Act("callable", FALSE, Len(cleanups))))

\* The test method returns.  (A body that ends in an assertion failure or in
\* an exception is a body step that raises: see BodyStep.)
EndBody ==
    /\ phase = "body"
    /\ phase' = "teardown"
    /\ UNCHANGED <<cls, cleanups, cleanup_waits, remote, log, errors>>

\* Teardown: one cleanup of the stack.
doCleanups ==
    /\ phase = "teardown" /\ cleanups # <<>>
    /\ \E oracle \in Oracles :
          LET t == doCleanupsStep(Self, oracle) IN
          /\ Commit(Raise(t, "none"))
          /\ errors' = IF t.exc = "none" THEN errors
                       ELSE Append(errors,
                                   [phase |-> "teardown", exc |-> t.exc,
                                    call |-> Last(cleanups).call])
    /\ phase' = "teardown"

Finish ==
    /\ phase = "teardown" /\ cleanups = <<>>
    /\ phase' = "done"
    /\ UNCHANGED <<cls, cleanups, cleanup_waits, remote, log, errors>>

\* The environment, while the test body runs: a resource disappears without
\* the test deleting it (a cascading delete, an accepted delete completing,
\* another actor).
RemoteVanish ==
    /\ phase = "body"
    /\ \E r \in 1..Len(remote) :
          /\ remote[r].st \in {"active", "deleting"}
          /\ remote' = [remote EXCEPT ![r].st = "gone"]
    /\ UNCHANGED <<cls, phase, cleanups, cleanup_waits, log, errors>>

Next ==
    \/ setUp
    \/ CreateKeypair
    \/ CreateServer
    \/ CreateVolume
    \/ ImageCreate
    \/ CreateServerSnapshot
    \/ CreateNetwork
    \/ CreateContainer
    \/ DeleteContainer
    \/ UploadObject
    \/ DeleteObject
    \/ TerminateInstance
    \/ AddCleanup
    \/ EndBody
    \/ doCleanups
    \/ Finish
    \/ RemoteVanish

Spec == Init /\ [][Next]_vars

\* ------------------------------------------- security groups and subnets
\* Candidate blocks of the tenant CIDR (CONF.network.tenant_network_cidr cut
\* in blocks of CONF.network.tenant_network_mask_bits).
NumBlocks == 2

\* Messages, as the words they are made of.  A Conflict's text is the fixed
\* text of the exception followed by the details the service gave.
ConflictText(details) ==
    <<"An", "object", "with", "that", "identifier", "already", "exists",
      "Details:">> \o details
RuleExistsDetails ==
    <<"Security", "group", "rule", "already", "exists", ".", "Group", "id",
      "is", "sg">>
OverlapDetails ==
    <<"Requested", "subnet", "with", "cidr", "overlaps", "with", "another",
      "subnet">>
QuotaDetails == <<"Quota", "exceeded", "for", "resources">>
\* needle in text (Python's in on strings).
Contains(needle, text) ==
    \E k \in 0..(Len(text) - Len(needle)) :
        SubSeq(text, k + 1, k + Len(needle)) = needle

\* The answers a remote create of a rule or a subnet is drawn from, and the
\* exception and message each raises.
AnswerExc(answer) ==
    IF answer \in {"ok", "mismatch", "redirected"} THEN "ok"
    ELSE IF answer \in {"exists", "overlap", "quota"} THEN "Conflict"
    ELSE "Exception"
AnswerMsg(answer) ==
    IF answer = "exists" THEN ConflictText(RuleExistsDetails)
    ELSE IF answer = "overlap" THEN ConflictText(OverlapDetails)
    ELSE IF answer = "quota" THEN ConflictText(QuotaDetails)
    ELSE <<>>

\* create_security_group_rule of the service: a rule identical to one the
\* group already holds is answered by the 'already exists' Conflict; a
\* service answering "redirected" makes the rule for the other direction.
OtherDirection(d) == IF d = "ingress" THEN "egress" ELSE "ingress"
remote_create_rule(t, attr, answer) ==
    IF t.exc # "none" THEN t
    ELSE LET dup == \E r \in 1..Len(t.remote) :
                        /\ t.remote[r].kind = "security_group_rule"
                        /\ t.remote[r].st = "active"
                        /\ t.remote[r].attr = attr
             ans == IF dup THEN "exists" ELSE answer
             made == IF ans = "redirected"
                     THEN <<attr[1], attr[2], OtherDirection(attr[3])>>
                     ELSE attr
         IN remote_create_with(t, "security_group_rule", made,
                               AnswerExc(ans), ans, AnswerMsg(ans))

\* ScenarioTest._create_loginable_secgroup_rule (the compute API): the ssh
\* and the ping rule; nothing is caught.
NovaRulesets == <<"tcp", "icmp">>
RECURSIVE nova_loginable_from(_, _, _, _, _)
nova_loginable_from(t, secgroup_id, i, answers, rules) ==
    IF t.exc # "none" THEN t
    ELSE IF i > Len(NovaRulesets) THEN [t EXCEPT !.ret = rules]
    ELSE LET r == Len(t.remote) + 1
             t1 == remote_create_rule(
                       t, <<secgroup_id, NovaRulesets[i], "ingress">>,
                       answers[i])
             t2 == addCleanup(t1, Act("delete_security_group_rule", TRUE, r))
         IN nova_loginable_from(t2, secgroup_id, i + 1, answers,
                                Append(rules, r))

_create_loginable_secgroup_rule(t, secgroup_id, answers) ==
    nova_loginable_from(t, secgroup_id, 1, answers, <<>>)

\* ScenarioTest._create_security_group.
_create_security_group(t, fail, answers) ==
    LET r == Len(t.remote) + 1
        t1 == remote_create(t, "security_group",
                            Outcome(fail, "create", "Exception"))
        t2 == assertEqual(t1, "name", r, fail # "assert")
        t3 == addCleanup(t2, Act("delete_security_group", TRUE, r))
        t4 == _create_loginable_secgroup_rule(t3, r, answers)
    IN Return(t4, r)

\* NetworkScenarioTest._create_empty_security_group.
_create_empty_security_group(t, fail) ==
    LET r == Len(t.remote) + 1
        t1 == remote_create(t, "security_group",
                            Outcome(fail, "create", "Exception"))
        t2 == assertEqual(t1, "name", r, fail # "assert")
        t3 == addCleanup(t2, Act("delete_security_group", TRUE, r))
    IN Return(t3, r)

\* NetworkScenarioTest._create_security_group_rule: the cleanup is
\* registered, then the response is compared with the group.
_create_security_group_rule(t, secgroup, ruleset, answer) ==
    LET r == Len(t.remote) + 1
        t1 == remote_create_rule(t, <<secgroup, ruleset[1], ruleset[2]>>,
                                 answer)
        t2 == addCleanup(t1, Act("delete_security_group_rule", TRUE, r))
        t3 == assertEqual(t2, "tenant_id", r, answer # "mismatch")
    IN Return(t3, r)

\* Mutant: the directions are the outer loop, the protocols the inner one.
LoginableRulesets_by_direction ==
    << <<"tcp", "ingress">>, <<"icmp", "ingress">>,
       <<"tcp", "egress">>, <<"icmp", "egress">> >>

LoginableRulesets ==
    << <<"tcp", "ingress">>, <<"tcp", "egress">>,
       <<"icmp", "ingress">>, <<"icmp", "egress">> >>
\* sg_rule.direction of the rule the service made (none when it made none).
DirectionOf(t, r) ==
    IF t.exc = "none" /\ r \in 1..Len(t.remote) THEN t.remote[r].attr[3]
    ELSE "none"

\* Mutant: every Conflict is taken for 'the rule already exists'.
RECURSIVE network_loginable_any_conflict(_, _, _, _, _)
network_loginable_any_conflict(t, secgroup, i, answers, rules) ==
    IF t.exc # "none" THEN t
    ELSE IF i > Len(LoginableRulesets) THEN [t EXCEPT !.ret = rules]
    ELSE LET r == Len(t.remote) + 1
             t1 == _create_security_group_rule(t, secgroup,
                                               LoginableRulesets[i],
                                               answers[i])
         IN IF t1.exc = "Conflict"
            THEN network_loginable_any_conflict(
                     [t1 EXCEPT !.exc = "none", !.msg = <<>>], secgroup,
                     i + 1, answers, rules)
            ELSE network_loginable_any_conflict(
                     assertEqual(t1, "direction", r,
                                 DirectionOf(t1, r) = LoginableRulesets[i][2]),
                     secgroup, i + 1,
                     answers, Append(rules, r))

Network_loginable_conflicts_skipped(t, secgroup, answers) ==
    network_loginable_any_conflict(t, secgroup, 1, answers, <<>>)

\* NetworkScenarioTest._create_loginable_secgroup_rule: ssh and ping, each
\* ingress and egress; a Conflict whose text holds 'Security group rule
\* already exists' skips the rule, any other exception propagates.
RECURSIVE network_loginable_from(_, _, _, _, _)
network_loginable_from(t, secgroup, i, answers, rules) ==
    IF t.exc # "none" THEN t
    ELSE IF i > Len(LoginableRulesets) THEN [t EXCEPT !.ret = rules]
    ELSE LET r == Len(t.remote) + 1
             t1 == _create_security_group_rule(t, secgroup,
                                               LoginableRulesets[i],
                                               answers[i])
             msg == <<"Security", "group", "rule", "already", "exists">>
         IN IF t1.exc = "Conflict"
            THEN (IF ~Contains(msg, t1.msg)
                  THEN t1
                  ELSE network_loginable_from(
                           [t1 EXCEPT !.exc = "none", !.msg = <<>>],
                           secgroup, i + 1, answers, rules))
            ELSE network_loginable_from(
                     assertEqual(t1, "direction", r,
                                 DirectionOf(t1, r) = LoginableRulesets[i][2]),
                     secgroup, i + 1,
                     answers, Append(rules, r))

Network_create_loginable_secgroup_rule(t, secgroup, answers) ==
    network_loginable_from(t, secgroup, 1, answers, <<>>)

\* NetworkScenarioTest._create_security_group.
Network_create_security_group(t, fail, answers) ==
    LET r == Len(t.remote) + 1
        t1 == _create_empty_security_group(t, fail)
    IN Network_create_loginable_secgroup_rule(t1, r, answers)

\* Mutant: no block is ever seen as in use.
cidr_never_in_use(t, cidr) == FALSE

\* cidr_in_use: the tenant has a subnet with that block.
cidr_in_use(t, cidr) ==
    \E r \in 1..Len(t.remote) : /\ t.remote[r].kind = "subnet"
                                /\ t.remote[r].st # "gone"
                                /\ t.remote[r].attr = cidr

\* Mutant: the loop stops at the first block, whatever became of it.
create_subnet_first_block(t, i, answers) ==
    IF t.exc # "none" \/ i > 1 THEN t
    ELSE LET t0 == Emit(t, Ev("attempt", "subnet", i, "", "", "body"))
             t1 == remote_create_with(t0, "subnet", i, AnswerExc(answers[i]),
                                      answers[i], AnswerMsg(answers[i]))
         IN IF t1.exc = "none" THEN [t1 EXCEPT !.ret = <<i>>]
            ELSE IF t1.exc = "Conflict"
                    /\ Contains(<<"overlaps", "with", "another", "subnet">>,
                                t1.msg)
            THEN [t1 EXCEPT !.exc = "none", !.msg = <<>>]
            ELSE t1

\* The loop of _create_subnet over the candidate blocks, from the i-th on:
\* ret is the block whose create succeeded (<<>>: none).  The log notes each
\* block the loop skips and each block it asks the service for.
RECURSIVE create_subnet_from(_, _, _)
create_subnet_from(t, i, answers) ==
    IF t.exc # "none" \/ i > NumBlocks THEN t
    ELSE IF cidr_in_use(t, i)
    THEN create_subnet_from(Emit(t, Ev("skip", "subnet", i, "in_use", "",
                                       "body")),
                            i + 1, answers)
    ELSE LET t0 == Emit(t, Ev("attempt", "subnet", i, "", "", "body"))
             t1 == remote_create_with(t0, "subnet", i, AnswerExc(answers[i]),
                                      answers[i], AnswerMsg(answers[i]))
         IN IF t1.exc = "none" THEN [t1 EXCEPT !.ret = <<i>>]
            ELSE IF t1.exc = "Conflict"
            THEN (IF ~Contains(<<"overlaps", "with", "another", "subnet">>,
                               t1.msg)
                  THEN t1
                  ELSE create_subnet_from(
                           [t1 EXCEPT !.exc = "none", !.msg = <<>>],
                           i + 1, answers))
            ELSE t1

\* Mutant: the result of the loop is used without the check that there is
\* one.
create_subnet_unchecked(t, answers) ==
    LET t1 == create_subnet_from([t EXCEPT !.ret = <<>>], 1, answers)
        r == Len(t1.remote)
        t2 == IF t1.exc = "none" /\ t1.ret = <<>>
              THEN Raise(t1, "TypeError")
              ELSE t1
        t3 == IF t2.exc = "none"
              THEN assertEqual(t2, "cidr", r,
                               answers[t2.ret[1]] # "mismatch")
              ELSE t2
        t4 == addCleanup(t3, Act("delete_subnet", TRUE, r))
    IN Return(t4, r)

\* NetworkScenarioTest._create_subnet.
_create_subnet(t, answers) ==
    LET t1 == create_subnet_from([t EXCEPT !.ret = <<>>], 1, answers)
        r == Len(t1.remote)
        t2 == IF t1.exc = "none" /\ t1.ret = <<>>
              THEN Raise(Emit(t1, Ev("assert", "Unable to allocate tenant network",
                                     0, "AssertionError", "", "body")),
                         "AssertionError")
              ELSE t1
        t3 == IF t2.exc = "none"
              THEN assertEqual(t2, "cidr", r,
                               answers[t2.ret[1]] # "mismatch")
              ELSE t2
        t4 == addCleanup(t3, Act("delete_subnet", TRUE, r))
    IN Return(t4, r)

\* ------------------------- the network and security group test cases
\* Factory calls in one test body of SpecNet.
MaxCalls == 3

Calls == Cardinality(Positions(LAMBDA e : e.ev = "call"))
CanCreateNet == phase = "body" /\ Calls < MaxCalls
\* The test body calls a factory.
Called(name, arg) == Emit(Self, Ev("call", name, arg, "", "", "body"))
RuleAnswers(secgroup) ==
    {"ok", "mismatch", "quota", "error"}
        \cup (IF secgroup = 0 THEN {"exists"} ELSE {})
SubnetAnswers == {"ok", "mismatch", "overlap", "quota", "error"}
\* The groups rules can be added to: those the test holds, and the default
\* group of the tenant (0), which other tests use too.
Secgroups == Held("security_group") \cup {0}

\* A test of ScenarioTest or NetworkScenarioTest; the tenant may already
\* have a subnet on the first block.
InitNet ==
    /\ cls \in {"ScenarioTest", "NetworkScenarioTest"}
    /\ phase = "new"
    /\ cleanups = <<>>
    /\ cleanup_waits = <<>>
    /\ remote \in {<<>>, <<[kind |-> "subnet", st |-> "active",
                            held |-> FALSE, attr |-> 1]>>}
    /\ log = <<>>
    /\ errors = <<>>

CreateNetworkNet ==
    /\ CanCreateNet /\ cls = "NetworkScenarioTest"
    /\ \E fail \in {"none", "create", "assert"} :
          BodyStep(_create_network(Called("_create_network", 0), fail))

CreateSubnet ==
    /\ CanCreateNet /\ cls = "NetworkScenarioTest"
    /\ Held("network") # {}
    /\ \E answers \in [1..NumBlocks -> SubnetAnswers] :
          BodyStep(_create_subnet(Called("_create_subnet", 0), answers))

CreateSecurityGroup ==
    /\ CanCreateNet /\ cls # "NetworkScenarioTest"
    /\ \E fail \in {"none", "create", "assert"},
          answers \in [1..Len(NovaRulesets) -> RuleAnswers(1)] :
          BodyStep(_create_security_group(
              Called("_create_security_group", 0), fail, answers))

CreateLoginableSecgroupRule ==
    /\ CanCreateNet /\ cls # "NetworkScenarioTest"
    /\ \E secgroup \in Secgroups,
          answers \in [1..Len(NovaRulesets) -> RuleAnswers(0)] :
          /\ \A i \in 1..Len(NovaRulesets) : answers[i] \in RuleAnswers(secgroup)
          /\ BodyStep(_create_loginable_secgroup_rule(
                 Called("_create_loginable_secgroup_rule", secgroup),
                 secgroup, answers))

NetworkCreateSecurityGroup ==
    /\ CanCreateNet /\ cls = "NetworkScenarioTest"
    /\ \E fail \in {"none", "create", "assert"},
          answers \in [1..Len(LoginableRulesets) -> RuleAnswers(1)] :
          BodyStep(Network_create_security_group(
              Called("_create_security_group", 0), fail, answers))

\* The log notes the rules of the list the call returned, in its order.
RECURSIVE ReturnEach(_, _, _)
ReturnEach(t, name, rules) ==
    IF t.exc # "none" \/ rules = <<>> THEN t
    ELSE ReturnEach(Emit(t, Ev("return", name, Head(rules), "", "", "body")),
                    name, Tail(rules))

NetworkCreateLoginableSecgroupRule ==
    /\ CanCreateNet /\ cls = "NetworkScenarioTest"
    /\ \E secgroup \in Secgroups,
          answers \in [1..Len(LoginableRulesets)
                          -> RuleAnswers(0) \cup {"redirected"}] :
          /\ \A i \in 1..Len(LoginableRulesets) :
                 answers[i] \in RuleAnswers(secgroup) \cup {"redirected"}
          /\ LET t == Network_create_loginable_secgroup_rule(
                          Called("_create_loginable_secgroup_rule", secgroup),
                          secgroup, answers)
             IN BodyStep(ReturnEach(t, "_create_loginable_secgroup_rule",
                                    t.ret))

\* Teardown, with a service that accepts every delete.
doCleanupsAccepted ==
    /\ phase = "teardown" /\ cleanups # <<>>
    /\ LET t == doCleanupsStep(Self, "deleting") IN
          /\ Commit(Raise(t, "none"))
          /\ errors' = IF t.exc = "none" THEN errors
                       ELSE Append(errors,
                                   [phase |-> "teardown", exc |-> t.exc,
                                    call |-> Last(cleanups).call])
    /\ phase' = "teardown"

NextNet ==
    \/ setUp
    \/ CreateNetworkNet
    \/ CreateSubnet
    \/ CreateSecurityGroup
    \/ CreateLoginableSecgroupRule
    \/ NetworkCreateSecurityGroup
    \/ NetworkCreateLoginableSecgroupRule
    \/ EndBody
    \/ doCleanupsAccepted
    \/ Finish

SpecNet == InitNet /\ [][NextNet]_vars

\* --------------------------------------- polling and connectivity checks
\* Attempts a poll makes before its timeout elapses (the timeout, in poll
\* intervals).
PollTicks == 2

\* What func may return as false: plainly, or having caught a NotFound.
FalseResults == {"false", "false after NotFound"}

\* tempest.test.call_until_true(func, duration, sleep_for): func is called
\* until it returns true or the duration has elapsed; results[k] is what the
\* k-th call of func does ("true", a false result, or the exception it
\* raises).
RECURSIVE call_until_true_from(_, _, _, _, _, _)
call_until_true_from(t, func, arg, param, results, k) ==
    IF t.exc # "none" THEN t
    ELSE IF k > Len(results) THEN [t EXCEPT !.ret = <<FALSE>>]
    ELSE LET t1 == Emit(t, Ev("poll", func, arg, results[k], param, "body"))
         IN IF results[k] = "true" THEN [t1 EXCEPT !.ret = <<TRUE>>]
            ELSE IF results[k] \in FalseResults
            THEN call_until_true_from(t1, func, arg, param, results, k + 1)
            ELSE Raise(t1, results[k])

\* The log notes what the poll returned.
call_until_true(t, func, arg, param, results) ==
    LET t1 == call_until_true_from([t EXCEPT !.ret = <<>>], func, arg, param,
                                   results, 1)
    IN IF t.exc # "none" \/ t1.exc # "none" THEN t1
       ELSE Emit(t1, Ev("poll_return", func, arg,
                        IF t1.ret = <<TRUE>> THEN "true" ELSE "false",
                        param, "body"))

\* An except block: the exception in flight is caught; a bare raise at its
\* end raises it again, unless the block itself raised.
Caught(t) == [t EXCEPT !.exc = "none"]
Reraise(t, e) == IF t.exc = "none" THEN Raise(t, e) ELSE t

\* ping() of ping_ip_address: one ping of the address, compared with what
\* is expected.
ping(reachable, should_succeed) ==
    IF reachable = should_succeed THEN "true" ELSE "false"

\* Mutant: the result of the poll is turned into a failure here.
ping_ip_address_raising(t, ip_address, should_succeed) ==
    LET t1 == call_until_true(
                  t, "ping", ip_address,
                  IF should_succeed THEN "should_succeed" ELSE "should_fail",
                  [k \in 1..PollTicks |->
                      ping(t.remote[ip_address].attr[k], should_succeed)])
    IN IF t1.exc = "none" /\ t1.ret = <<FALSE>>
       THEN Raise(t1, "TimeoutException") ELSE t1

\* ScenarioTest.ping_ip_address: the address (a resource of the remote
\* world whose attr tells, tick by tick, whether it answers) is pinged until
\* the answer is the expected one; returns what the poll returns.
ping_ip_address(t, ip_address, should_succeed) ==
    call_until_true(
        t, "ping", ip_address,
        IF should_succeed THEN "should_succeed" ELSE "should_fail",
        [k \in 1..PollTicks |->
            ping(t.remote[ip_address].attr[k], should_succeed)])

\* debug.log_net_debug: the network debug capture.
log_net_debug(t, netdebug) ==
    IF t.exc # "none" THEN t
    ELSE LET t1 == Emit(t, Ev("capture", "log_net_debug", 0, netdebug, "",
                              "body"))
         IN IF netdebug = "ok" THEN t1 ELSE Raise(t1, netdebug)

\* ScenarioTest.get_remote_client: an ssh session to the address; on
\* SSHTimeout the network debug is captured and the exception raised again.
get_remote_client(t, ip, ssh, netdebug) ==
    IF t.exc # "none" THEN t
    ELSE LET t1 == Emit(t, Ev("ssh", "get_remote_client", ip, ssh, "",
                              "body"))
         IN IF ssh = "ok" THEN t1
            ELSE IF ssh = "SSHTimeout"
            THEN Reraise(log_net_debug(t1, netdebug), "SSHTimeout")
            ELSE Raise(t1, ssh)

\* Mutant: the ssh session is opened whatever is expected.
check_vm_connectivity_always_ssh(t, ip_address, should_connect, ssh, netdebug) ==
    LET t0 == IF t.exc # "none" THEN t
              ELSE Emit(t, Ev("check", "check_vm_connectivity", ip_address,
                              "", IF should_connect THEN "connect"
                                  ELSE "no_connect", "body"))
        t1 == ping_ip_address(t0, ip_address, should_connect)
        t2 == assertEqual(t1, IF should_connect
                              THEN "Timed out waiting to become reachable"
                              ELSE "ip address is reachable",
                          ip_address, t1.ret = <<TRUE>>)
    IN get_remote_client(t2, ip_address, ssh, netdebug)

\* Mutant: the ssh session is opened before the ping.
check_vm_connectivity_ssh_first(t, ip_address, should_connect, ssh, netdebug) ==
    LET t0 == IF t.exc # "none" THEN t
              ELSE Emit(t, Ev("check", "check_vm_connectivity", ip_address,
                              "", IF should_connect THEN "connect"
                                  ELSE "no_connect", "body"))
        t1 == IF should_connect
              THEN get_remote_client(t0, ip_address, ssh, netdebug)
              ELSE t0
        t2 == ping_ip_address(t1, ip_address, should_connect)
    IN assertEqual(t2, IF should_connect
                       THEN "Timed out waiting to become reachable"
                       ELSE "ip address is reachable",
                   ip_address, t2.ret = <<TRUE>>)

\* ScenarioTest.check_vm_connectivity.
check_vm_connectivity(t, ip_address, should_connect, ssh, netdebug) ==
    LET t0 == IF t.exc # "none" THEN t
              ELSE Emit(t, Ev("check", "check_vm_connectivity", ip_address,
                              "", IF should_connect THEN "connect"
                                  ELSE "no_connect", "body"))
        t1 == ping_ip_address(t0, ip_address, should_connect)
        t2 == assertEqual(t1, IF should_connect
                              THEN "Timed out waiting to become reachable"
                              ELSE "ip address is reachable",
                          ip_address, t1.ret = <<TRUE>>)
    IN IF should_connect
       THEN get_remote_client(t2, ip_address, ssh, netdebug)
       ELSE t2

\* ScenarioTest._log_console_output: nothing when the feature is disabled;
\* otherwise the servers are listed and the console output of each is
\* fetched from the service, which may raise.
_log_console_output(t, console) ==
    IF t.exc # "none" THEN t
    ELSE LET t1 == Emit(t, Ev("capture", "_log_console_output", 0, console,
                              "", "body"))
         IN IF console \in {"ok", "disabled"} THEN t1 ELSE Raise(t1, console)

\* ScenarioTest._log_net_info.
_log_net_info(t, exc, netdebug) ==
    IF exc # "SSHTimeout" THEN log_net_debug(t, netdebug) ELSE t

\* ScenarioTest.check_public_network_connectivity.
check_public_network_connectivity(t, ip_address, should_connect, ssh, console, netdebug) ==
    LET t1 == check_vm_connectivity(t, ip_address, should_connect, ssh,
                                    netdebug)
    IN IF t.exc # "none" \/ t1.exc = "none" THEN t1
       ELSE LET e == t1.exc
                t2 == _log_console_output(Caught(t1), console)
                t3 == IF e # "SSHTimeout" THEN log_net_debug(t2, netdebug)
                      ELSE t2
            IN Reraise(t3, e)

\* NetworkScenarioTest._check_tenant_network_connectivity, on the addresses
\* of the server from the i-th on.
RECURSIVE check_addresses_from(_, _, _, _, _, _)
check_addresses_from(t, ips, i, should_connect, ssh, netdebug) ==
    IF t.exc # "none" \/ i > Len(ips) THEN t
    ELSE check_addresses_from(
             check_vm_connectivity(t, ips[i], should_connect, ssh, netdebug),
             ips, i + 1, should_connect, ssh, netdebug)

\* Mutant: the configuration is not looked at.
check_tenant_network_connectivity_unconfigured(t, ips, reachable_conf, should_connect, ssh, console, netdebug) ==
    IF t.exc # "none" THEN t
    ELSE LET t1 == check_addresses_from(t, ips, 1, should_connect, ssh,
                                        netdebug)
         IN IF t1.exc = "none" THEN t1
            ELSE LET e == t1.exc
                     t2 == _log_console_output(Caught(t1), console)
                     t3 == _log_net_info(t2, e, netdebug)
                 IN Reraise(t3, e)

\* NetworkScenarioTest._check_tenant_network_connectivity: nothing when the
\* tenant networks are not reachable; otherwise every address is checked and
\* a failure is logged with the console output and the network info.
_check_tenant_network_connectivity(t, ips, reachable_conf, should_connect, ssh, console, netdebug) ==
    IF t.exc # "none" \/ ~reachable_conf THEN t
    ELSE LET t1 == check_addresses_from(t, ips, 1, should_connect, ssh,
                                        netdebug)
         IN IF t1.exc = "none" THEN t1
            ELSE LET e == t1.exc
                     t2 == _log_console_output(Caught(t1), console)
                     t3 == _log_net_info(t2, e, netdebug)
                 IN Reraise(t3, e)

\* NetworkScenarioTest._check_remote_connectivity: ping_remote pings dest
\* over the ssh connection source; pings[k] is what the k-th ping_host does
\* ("ok", "SSHExecCommandFailed", or another exception, which is not caught).
ping_remote(ping_host, should_succeed) ==
    IF ping_host = "SSHExecCommandFailed"
    THEN (IF should_succeed THEN "false" ELSE "true")
    ELSE IF ping_host = "ok"
    THEN (IF should_succeed THEN "true" ELSE "false")
    ELSE ping_host

_check_remote_connectivity(t, dest, should_succeed, pings) ==
    call_until_true(
        t, "ping_remote", dest,
        IF should_succeed THEN "should_succeed" ELSE "should_fail",
        [k \in 1..Len(pings) |-> ping_remote(pings[k], should_succeed)])

\* Mutant: what the poll returns is the verdict, and nobody looks at it.
check_floating_ip_status_unasserted(t, floating_ip, status, statuses) ==
    call_until_true(
        t, "refresh", floating_ip, status,
        [k \in 1..Len(statuses) |->
            IF statuses[k] = status THEN "true" ELSE "false"])

\* NetworkScenarioTest.check_floating_ip_status: the floating ip is
\* refreshed until it has the status; statuses[k] is its status at the k-th
\* refresh.  What the poll returns is not looked at: the status of the last
\* refresh is compared with the target.
check_floating_ip_status(t, floating_ip, status, statuses) ==
    LET t1 == call_until_true(
                  t, "refresh", floating_ip, status,
                  [k \in 1..Len(statuses) |->
                      IF statuses[k] = status THEN "true" ELSE "false"])
        seen == Cardinality({i \in (Len(t.log) + 1)..Len(t1.log) :
                                 t1.log[i].ev = "poll"})
    IN assertEqual(t1, "floating ip status", floating_ip,
                   seen > 0 /\ statuses[seen] = status)

\* ------------------------------------------------------ bare-metal boot
\* Mutant: a poll that returns false is not turned into a failure.
node_state_timeout_silent(t, node_id, state_attr, target_states, label, observed) ==
    call_until_true(
        t, state_attr, node_id, label,
        [k \in 1..Len(observed) |->
            IF observed[k] \in target_states THEN "true" ELSE "false"])

\* BaremetalScenarioTest._node_state_timeout: the node is looked up until
\* its state_attr is one of target_states (label: their text in the
\* message); observed[k] is the state at the k-th look, or "NotFound" when
\* the lookup raises it.
_node_state_timeout(t, node_id, state_attr, target_states, label, observed) ==
    LET t1 == call_until_true(
                  t, state_attr, node_id, label,
                  [k \in 1..Len(observed) |->
                      IF observed[k] = "NotFound" THEN "NotFound"
                      ELSE IF observed[k] \in target_states THEN "true"
                      ELSE "false"])
    IN IF t1.exc = "none" /\ t1.ret = <<FALSE>>
       THEN [Emit(t1, Ev("timeout", state_attr, node_id, "TimeoutException",
                         label, "body"))
                EXCEPT !.exc = "TimeoutException",
                       !.msg = <<"Timed", "out", "waiting", "for", "node",
                                 "to", "reach", state_attr, "state(s)",
                                 label>>]
       ELSE t1

wait_provisioning_state(t, node_id, state, label, observed) ==
    _node_state_timeout(t, node_id, "provision_state", state, label, observed)

wait_power_state(t, node_id, state, observed) ==
    _node_state_timeout(t, node_id, "power_state", {state}, state, observed)

\* Mutant: the NotFound of the lookup is not caught.
wait_node_uncaught(t, instance_id, looked) ==
    LET t1 == call_until_true(
                  t, "_get_node", instance_id, "",
                  [k \in 1..Len(looked) |->
                      IF looked[k] = "node" THEN "true"
                      ELSE IF looked[k] = "NotFound" THEN "NotFound"
                      ELSE "false"])
    IN IF t1.exc = "none" /\ t1.ret = <<FALSE>>
       THEN Raise(Emit(t1, Ev("timeout", "node by instance id", instance_id,
                              "TimeoutException", "", "body")),
                  "TimeoutException")
       ELSE t1

\* BaremetalScenarioTest.wait_node: looked[k] is what the k-th lookup of the
\* node by instance id gives ("node", "none", or "NotFound", which is
\* caught).
wait_node(t, instance_id, looked) ==
    LET t1 == call_until_true(
                  t, "_get_node", instance_id, "",
                  [k \in 1..Len(looked) |->
                      IF looked[k] = "node" THEN "true"
                      ELSE IF looked[k] = "NotFound"
                      THEN "false after NotFound"
                      ELSE "false"])
    IN IF t1.exc = "none" /\ t1.ret = <<FALSE>>
       THEN [Emit(t1, Ev("timeout", "node by instance id", instance_id,
                         "TimeoutException", "", "body"))
                EXCEPT !.exc = "TimeoutException",
                       !.msg = <<"Timed", "out", "waiting", "to", "get",
                                 "Ironic", "node", "by", "instance", "id">>]
       ELSE t1

\* BaremetalScenarioTest.get_node(instance_id=...), outside a poll.
get_node(t, instance_id, out) ==
    IF t.exc # "none" THEN t
    ELSE LET t1 == Emit(t, Ev("get_node", "show_node_by_instance_uuid",
                              instance_id, out, "", "body"))
         IN IF out = "ok" THEN t1 ELSE Raise(t1, out)

\* The states a look at the node may show, and the targets of the stages.
PowerStates == {"power on", "power off"}
ProvisionStates == {"deploying", "wait call-back", "active"}
DeployWaitOrActive == {"wait call-back", "active"}

\* Mutant: the provisioning waits come before the power wait.
boot_instance_power_last(t, fail, looked, node, power, deploy, active, status_ok) ==
    LET r == Len(t.remote) + 1
        t1 == create_server(t, FALSE, TRUE, fail)
        t2 == wait_node(t1, r, looked)
        t3 == get_node(t2, r, node)
        t4 == wait_provisioning_state(t3, r, DeployWaitOrActive,
                                      "wait call-back, active", deploy)
        t5 == wait_provisioning_state(t4, r, {"active"}, "active", active)
        t6 == wait_power_state(t5, r, "power on", power)
    IN wait_for_status(t6, "wait_for_server_status", r, status_ok)

\* BaremetalScenarioTest.boot_instance.
boot_instance(t, fail, looked, node, power, deploy, active, status_ok) ==
    LET r == Len(t.remote) + 1
        t1 == create_server(t, FALSE, TRUE, fail)
        t2 == wait_node(t1, r, looked)
        t3 == get_node(t2, r, node)
        t4 == wait_power_state(t3, r, "power on", power)
        t5 == wait_provisioning_state(t4, r, DeployWaitOrActive,
                                      "wait call-back, active", deploy)
        t6 == wait_provisioning_state(t5, r, {"active"}, "active", active)
    IN wait_for_status(t6, "wait_for_server_status", r, status_ok)

\* ------------------------------- the connectivity and boot test cases
\* Helper calls in one test body of SpecPoll.
MaxChecks == 2

CanCheck == phase = "body" /\ Calls < MaxChecks
Timelines == [1..PollTicks -> BOOLEAN]
SshAnswers == {"ok", "SSHTimeout", "SSHException"}
ConsoleAnswers == {"ok", "disabled", "ServerFault"}
NetDebugAnswers == {"ok", "OSError"}
\* The test body calls a helper on an address: the address is a resource of
\* the remote world, attr is whether it answers a ping at each tick of the
\* poll that follows.
CalledOn(name, reach) ==
    LET t == Called(name, Len(remote) + 1)
    IN [t EXCEPT !.remote = Append(@, [kind |-> "address", st |-> "active",
                                       held |-> FALSE, attr |-> reach])]

InitPoll ==
    /\ cls \in {"ScenarioTest", "NetworkScenarioTest", "BaremetalScenarioTest"}
    /\ phase = "new"
    /\ cleanups = <<>>
    /\ cleanup_waits = <<>>
    /\ remote = <<>>
    /\ log = <<>>
    /\ errors = <<>>

CheckVmConnectivity ==
    /\ CanCheck
    /\ \E reach \in Timelines, should_connect \in BOOLEAN,
          ssh \in SshAnswers, netdebug \in NetDebugAnswers :
          BodyStep(check_vm_connectivity(
                       CalledOn("check_vm_connectivity", reach),
                       Len(remote) + 1, should_connect, ssh, netdebug))

CheckPublicNetworkConnectivity ==
    /\ CanCheck
    /\ \E reach \in Timelines, should_connect \in BOOLEAN,
          ssh \in SshAnswers, console \in ConsoleAnswers,
          netdebug \in NetDebugAnswers :
          BodyStep(check_public_network_connectivity(
                       CalledOn("check_public_network_connectivity", reach),
                       Len(remote) + 1, should_connect, ssh, console,
                       netdebug))

\* The server has two addresses; the log notes the configuration the call
\* was made under.
CheckTenantNetworkConnectivity ==
    /\ CanCheck /\ cls = "NetworkScenarioTest"
    /\ \E reach1 \in Timelines, reach2 \in Timelines,
          reachable_conf \in BOOLEAN, should_connect \in BOOLEAN,
          ssh \in SshAnswers, console \in ConsoleAnswers,
          netdebug \in NetDebugAnswers :
          LET t0 == CalledOn("_check_tenant_network_connectivity", reach1)
              t1 == [t0 EXCEPT !.log[Len(t0.log)].param =
                         IF reachable_conf THEN "reachable"
                         ELSE "not reachable"]
              t2 == [t1 EXCEPT !.remote =
                         Append(@, [kind |-> "address", st |-> "active",
                                    held |-> FALSE, attr |-> reach2])]
          IN BodyStep(_check_tenant_network_connectivity(
                          t2, <<Len(remote) + 1, Len(remote) + 2>>,
                          reachable_conf, should_connect, ssh, console,
                          netdebug))

CheckRemoteConnectivity ==
    /\ CanCheck /\ cls = "NetworkScenarioTest"
    /\ \E should_succeed \in BOOLEAN,
          pings \in [1..PollTicks ->
                        {"ok", "SSHExecCommandFailed", "SSHTimeout"}] :
          BodyStep(_check_remote_connectivity(
                       Called("_check_remote_connectivity", 0), 0,
                       should_succeed, pings))

CheckFloatingIpStatus ==
    /\ CanCheck /\ cls = "NetworkScenarioTest"
    /\ \E status \in {"ACTIVE", "DOWN"},
          statuses \in [1..PollTicks -> {"ACTIVE", "DOWN"}] :
          BodyStep(check_floating_ip_status(
                       Called("check_floating_ip_status", 0), 0, status,
                       statuses))

\* What a stage is shown is drawn only when the stage is reached.
Shown(reached, S) == IF reached THEN S ELSE {CHOOSE x \in S : TRUE}
Reaches(observed, targets) ==
    \E k \in 1..Len(observed) : observed[k] \in targets

BootInstance ==
    /\ CanCheck /\ cls = "BaremetalScenarioTest"
    /\ \E fail \in {"none", "create", "assert"} :
       \E looked \in Shown(fail = "none",
                           [1..PollTicks -> {"node", "none", "NotFound"}]) :
       \E node \in Shown(fail = "none" /\ Reaches(looked, {"node"}),
                         {"ok", "NotFound"}) :
       \E power \in Shown(fail = "none" /\ Reaches(looked, {"node"})
                              /\ node = "ok",
                          [1..PollTicks -> PowerStates]) :
       \E deploy \in Shown(fail = "none" /\ Reaches(looked, {"node"})
                               /\ node = "ok"
                               /\ Reaches(power, {"power on"}),
                           [1..PollTicks -> ProvisionStates]) :
       \E active \in Shown(fail = "none" /\ Reaches(looked, {"node"})
                               /\ node = "ok"
                               /\ Reaches(power, {"power on"})
                               /\ Reaches(deploy, DeployWaitOrActive),
                           [1..PollTicks -> ProvisionStates]) :
       \E status_ok \in Shown(fail = "none" /\ Reaches(looked, {"node"})
                                  /\ node = "ok"
                                  /\ Reaches(power, {"power on"})
                                  /\ Reaches(deploy, DeployWaitOrActive)
                                  /\ Reaches(active, {"active"}),
                              BOOLEAN) :
          BodyStep(boot_instance(Called("boot_instance", Len(remote) + 1),
                                 fail, looked, node, power, deploy, active,
                                 status_ok))

NextPoll ==
    \/ setUp
    \/ CheckVmConnectivity
    \/ CheckPublicNetworkConnectivity
    \/ CheckTenantNetworkConnectivity
    \/ CheckRemoteConnectivity
    \/ CheckFloatingIpStatus
    \/ BootInstance
    \/ EndBody
    \/ doCleanupsAccepted
    \/ Finish

SpecPoll == InitPoll /\ [][NextPoll]_vars

\* ------------------------------------------------------- class setup
\* The exception a test class raises to declare itself skipped.
skipException == "skipException"

\* Raising cls.skipException(msg) in resource_setup of the class c.
raise_skip(t, c) ==
    IF t.exc # "none" THEN t
    ELSE Raise(Emit(t, Ev("skipException", c, 0, "", "", "class")),
               skipException)

\* Credentials of the isolated credentials provider (get_primary_creds,
\* get_admin_creds): allocated, or the exception of the provider.
allocate_credentials(t, who, answer) ==
    IF t.exc # "none" THEN t
    ELSE LET t1 == Emit(t, Ev("credentials", who, 0, answer, "", "class"))
         IN IF answer = "ok" THEN t1 ELSE Raise(t1, answer)

\* clients.Manager(credentials): a client manager is built.
clients_Manager(t, who) ==
    IF t.exc # "none" THEN t
    ELSE Emit(t, Ev("manager", who, 0, "", "", "class"))

\* ScenarioTest.admin_credentials: a provider without admin credentials
\* skips the class.
admin_credentials(t, answer) ==
    LET t1 == allocate_credentials(t, "admin", answer)
    IN IF t1.exc = "NotImplementedError"
       THEN raise_skip(Caught(t1), "admin_credentials")
       ELSE t1

\* cls.set_network_resources(): no network resources for this class.
set_network_resources(t) ==
    IF t.exc # "none" THEN t
    ELSE Emit(t, Ev("set_network_resources", "", 0, "", "", "class"))

\* ScenarioTest.resource_setup: the credentials of the class, the client
\* manager built on them, the admin client manager, then the clients read
\* off the managers.
ScenarioTest_resource_setup(t, creds, admin) ==
    LET t1 == allocate_credentials(t, "primary", creds)
        t2 == clients_Manager(t1, "primary")
        t3 == admin_credentials(t2, admin)
    IN clients_Manager(t3, "admin")

\* NetworkScenarioTest.check_preconditions and resource_setup.
NetworkScenarioTest_resource_setup(t, conf, creds, admin) ==
    IF ~conf.service THEN raise_skip(t, "NetworkScenarioTest")
    ELSE ScenarioTest_resource_setup(t, creds, admin)

\* BaremetalScenarioTest.resource_setup: after the setup of the base class,
\* an admin client manager and a first list of the nodes.
BaremetalScenarioTest_resource_setup(t, conf, creds, admin, nodes) ==
    IF ~conf.service \/ ~conf.driver
    THEN raise_skip(t, "BaremetalScenarioTest")
    ELSE LET t1 == ScenarioTest_resource_setup(t, creds, admin)
             t2 == admin_credentials(t1, admin)
             t3 == clients_Manager(t2, "baremetal")
         IN IF t3.exc # "none" THEN t3
            ELSE LET t4 == Emit(t3, Ev("remote_call", "list_nodes", 0, nodes,
                                       "", "class"))
                 IN IF nodes = "ok" THEN t4 ELSE Raise(t4, nodes)

\* OrchestrationScenarioTest.resource_setup.
OrchestrationScenarioTest_resource_setup(t, conf, creds, admin) ==
    IF ~conf.service THEN raise_skip(t, "OrchestrationScenarioTest")
    ELSE ScenarioTest_resource_setup(t, creds, admin)

\* SwiftScenarioTest.resource_setup.
SwiftScenarioTest_resource_setup(t, conf, creds, admin) ==
    IF ~conf.service THEN raise_skip(t, "SwiftScenarioTest")
    ELSE ScenarioTest_resource_setup(set_network_resources(t), creds, admin)

\* TestDashboardBasicOps.resource_setup.
TestDashboardBasicOps_resource_setup(t, conf, creds, admin) ==
    IF ~conf.service THEN raise_skip(t, "TestDashboardBasicOps")
    ELSE ScenarioTest_resource_setup(set_network_resources(t), creds, admin)

\* tempest.api.network.base.BaseNetworkTest.resource_setup: the class is
\* skipped without neutron; otherwise the credentials of the class are
\* allocated and its client manager is built.
BaseNetworkTest_resource_setup(t, conf, creds) ==
    IF ~conf.service THEN raise_skip(t, "BaseNetworkTest")
    ELSE clients_Manager(
             allocate_credentials(set_network_resources(t), "primary", creds),
             "primary")

\* ServiceTypeManagementTestJSON.resource_setup: the setup of the base
\* class, then the check of the extension.
ServiceTypeManagementTestJSON_resource_setup(t, conf, creds) ==
    LET t1 == BaseNetworkTest_resource_setup(t, conf, creds)
    IN IF ~conf.extension
       THEN raise_skip(t1, "ServiceTypeManagementTestJSON")
       ELSE t1

\* resource_setup of the class c.
resource_setup(t, c, conf, creds, admin, nodes) ==
    IF c = "NetworkScenarioTest"
    THEN NetworkScenarioTest_resource_setup(t, conf, creds, admin)
    ELSE IF c = "BaremetalScenarioTest"
    THEN BaremetalScenarioTest_resource_setup(t, conf, creds, admin, nodes)
    ELSE IF c = "OrchestrationScenarioTest"
    THEN OrchestrationScenarioTest_resource_setup(t, conf, creds, admin)
    ELSE IF c = "SwiftScenarioTest"
    THEN SwiftScenarioTest_resource_setup(t, conf, creds, admin)
    ELSE IF c = "TestDashboardBasicOps"
    THEN TestDashboardBasicOps_resource_setup(t, conf, creds, admin)
    ELSE ServiceTypeManagementTestJSON_resource_setup(t, conf, creds)

\* ServiceTypeManagementTestJSON.test_service_provider_list: the providers
\* are listed and the answer is asserted to be a list.
test_service_provider_list(t, answer) ==
    LET t1 == Emit(t, Ev("remote_call", "list_service_providers", 0, answer,
                         "", "body"))
    IN IF answer = "ok" THEN t1
       ELSE IF answer = "not_a_list" THEN Raise(t1, "AssertionError")
       ELSE Raise(t1, answer)

\* The configuration: whether the service of the class is available
\* (neutron, ironic, heat, swift, horizon), whether the bare-metal compute
\* driver is enabled, whether the service-type extension is enabled.
Confs == [service : BOOLEAN, driver : BOOLEAN, extension : BOOLEAN]
\* Whether all that the class c needs is enabled.
Needed(c, conf) ==
    /\ conf.service
    /\ c = "BaremetalScenarioTest" => conf.driver
    /\ c = "ServiceTypeManagementTestJSON" => conf.extension

SetupClasses ==
    {"NetworkScenarioTest", "BaremetalScenarioTest",
     "OrchestrationScenarioTest", "SwiftScenarioTest",
     "TestDashboardBasicOps", "ServiceTypeManagementTestJSON"}

InitSetup ==
    /\ cls \in SetupClasses
    /\ phase = "class"
    /\ cleanups = <<>>
    /\ cleanup_waits = <<>>
    /\ remote = <<>>
    /\ log = <<>>
    /\ errors = <<>>

\* The runner sets the class up: a skip ends the class without a failure,
\* any other exception is an error of the class.  The first event of the
\* log notes the configuration the class ran under.
ResourceSetup ==
    /\ phase = "class"
    /\ \E conf \in Confs, creds \in {"ok", "Unauthorized"},
          admin \in {"ok", "NotImplementedError"},
          nodes \in {"ok", "ServerFault"} :
          LET t0 == Emit(Self, Ev("conf", cls, 0,
                                  IF Needed(cls, conf) THEN "enabled"
                                  ELSE "disabled", "", "class"))
              t == resource_setup(t0, cls, conf, creds, admin, nodes)
          IN /\ Commit(t)
             /\ phase' = IF t.exc = "none" THEN "new"
                         ELSE IF t.exc = skipException THEN "skipped"
                         ELSE "class_error"
             /\ errors' = IF t.exc \in {"none", skipException} THEN errors
                          ELSE Append(errors,
                                      [phase |-> "class", exc |-> t.exc,
                                       call |-> "resource_setup"])

\* A test of a scenario class starts.
ScenarioSetUp ==
    /\ cls # "ServiceTypeManagementTestJSON"
    /\ setUp

\* The test of ServiceTypeManagementTestJSON.
TestServiceProviderList ==
    /\ phase = "new" /\ cls = "ServiceTypeManagementTestJSON"
    /\ \E answer \in {"ok", "not_a_list", "ServerFault"} :
          LET t == test_service_provider_list(Self, answer)
          IN /\ Commit(t)
             /\ errors' = IF t.exc = "none" THEN errors
                          ELSE Append(errors, [phase |-> "body",
                                               exc |-> t.exc,
                                               call |-> "test"])
    /\ phase' = "done"

NextSetup ==
    \/ ResourceSetup
    \/ ScenarioSetUp
    \/ TestServiceProviderList
    \/ CreateKeypair
    \/ EndBody
    \/ doCleanups
    \/ Finish

SpecSetup == InitSetup /\ [][NextSetup]_vars

\* ---------------------------------------- routers, networks, pools
\* A call of the service that creates nothing (show, update, list); out is
\* its answer.
remote_call(t, call, r, out, param) ==
    IF t.exc # "none" THEN t
    ELSE LET t1 == Emit(t, Ev("remote_call", call, r, out, param, "body"))
         IN IF out = "ok" THEN t1 ELSE Raise(t1, out)

\* Mutant: the router's delete is registered without delete_wrapper.
create_router_unwrapped(t, fail) ==
    LET r == Len(t.remote) + 1
        t1 == remote_create(t, "router", Outcome(fail, "create", "Exception"))
        t2 == assertEqual(t1, "name", r, fail # "assert")
        t3 == addCleanup(t2, Act("delete_router", FALSE, r))
    IN Return(t3, r)

\* NetworkScenarioTest._create_router.
_create_router(t, fail) ==
    LET r == Len(t.remote) + 1
        t1 == remote_create(t, "router", Outcome(fail, "create", "Exception"))
        t2 == assertEqual(t1, "name", r, fail # "assert")
        t3 == addCleanup(t2, Act("delete_router", TRUE, r))
    IN Return(t3, r)

\* Mutant: a tenant router is created whenever there is a public network,
\* a public router or not.
get_router_network_first(t, conf, fail) ==
    IF t.exc # "none" THEN t
    ELSE IF conf.public_network_id
    THEN LET r == Len(t.remote) + 1
             t1 == _create_router(t, fail)
             t2 == remote_call(t1, "set_gateway", r,
                               Outcome(fail, "gateway", "Exception"),
                               "public_network")
         IN IF t2.exc = "none" THEN [t2 EXCEPT !.ret = <<r>>] ELSE t2
    ELSE IF conf.public_router_id
    THEN LET t1 == remote_call(t, "show_router", 0,
                               Outcome(fail, "show", "NotFound"), "")
         IN IF t1.exc = "none" THEN [t1 EXCEPT !.ret = <<0>>] ELSE t1
    ELSE Raise(t, "Exception")

\* NetworkScenarioTest._get_router: the public router of the configuration
\* (0: it is not a resource of the test), or a new router whose gateway is
\* the public network; ret is the router.
_get_router(t, conf, fail) ==
    IF t.exc # "none" THEN t
    ELSE IF conf.public_router_id
    THEN LET t1 == remote_call(t, "show_router", 0,
                               Outcome(fail, "show", "NotFound"), "")
         IN IF t1.exc = "none" THEN [t1 EXCEPT !.ret = <<0>>] ELSE t1
    ELSE IF conf.public_network_id
    THEN LET r == Len(t.remote) + 1
             t1 == _create_router(t, fail)
             t2 == remote_call(t1, "set_gateway", r,
                               Outcome(fail, "gateway", "Exception"),
                               "public_network")
         IN IF t2.exc = "none" THEN [t2 EXCEPT !.ret = <<r>>] ELSE t2
    ELSE Raise(t, "Exception")

\* What the steps of create_networks are told to do when fail names one of
\* them.
StepFail(fail, step) ==
    IF fail = <<step, "create">> THEN "create"
    ELSE IF fail = <<step, "assert">> THEN "assert"
    ELSE IF fail = <<step, "show">> THEN "show"
    ELSE IF fail = <<step, "gateway">> THEN "gateway"
    ELSE "none"

\* The network argument of _create_subnet, noted in the log.
create_subnet_on(t, network, answers) ==
    IF t.exc # "none" THEN t
    ELSE _create_subnet(Emit(t, Ev("subcall", "_create_subnet", network, "",
                                   "", "body")),
                        answers)

\* Mutant: the bare-metal driver is not looked at.
create_networks_ignoring_driver(t, driver_enabled, conf, fail, answers) ==
    LET n == Len(t.remote) + 1
        t1 == _create_network(t, StepFail(fail, "network"))
        t2 == _get_router(t1, conf, StepFail(fail, "router"))
        t3 == create_subnet_on(t2, n, answers)
        s == Len(t3.remote)
    IN remote_call(t3, "add_to_router", s,
                   IF fail = <<"subnet", "attach">> THEN "Exception"
                   ELSE "ok",
                   IF t2.ret = <<0>> THEN "public_router"
                   ELSE "tenant_router")

\* NetworkScenarioTest.create_networks: with the bare-metal driver the
\* shared network is looked up by name (the first of the networks listed,
\* an IndexError when none is) and nothing is created; otherwise a network,
\* the router, a subnet of the network, and the subnet is added to the
\* router.
create_networks(t, driver_enabled, conf, fail, answers) ==
    IF driver_enabled
    THEN LET empty == fail = <<"network", "empty">>
             t1 == remote_call(t, "list_networks", 0,
                               IF fail = <<"network", "create">>
                               THEN "Exception" ELSE "ok",
                               IF empty THEN "empty" ELSE "")
             t2 == IF t1.exc = "none" /\ empty THEN Raise(t1, "IndexError")
                   ELSE t1
         IN IF t2.exc # "none" THEN t2
            ELSE Emit(t2, Ev("return", "create_networks", 0, "",
                             "subnet=None router=None", "body"))
    ELSE LET n == Len(t.remote) + 1
             t1 == _create_network(t, StepFail(fail, "network"))
             t2 == _get_router(t1, conf, StepFail(fail, "router"))
             t3 == create_subnet_on(t2, n, answers)
             s == Len(t3.remote)
         IN remote_call(t3, "add_to_router", s,
                        IF fail = <<"subnet", "attach">> THEN "Exception"
                        ELSE "ok",
                        IF t2.ret = <<0>> THEN "public_router"
                        ELSE "tenant_router")

\* The ports the port listing may show for a server.
MaxPorts == 2
PortsName(ports) ==
    IF ports = 0 THEN "no port" ELSE IF ports = 1 THEN "one port"
    ELSE "several ports"

\* Mutant: the first port is taken, however many were listed.
get_server_port_id_unasserted(t, server, ports, fail) ==
    remote_call(t, "list_ports", server, Outcome(fail, "list", "Exception"),
                PortsName(ports))

\* NetworkScenarioTest._get_server_port_id: the ports of the server are
\* listed and there must be exactly one.
_get_server_port_id(t, server, ports, fail) ==
    LET t1 == remote_call(t, "list_ports", server,
                          Outcome(fail, "list", "Exception"),
                          PortsName(ports))
    IN assertEqual(t1, "len(ports)", server, ports = 1)

\* NetworkScenarioTest.create_floating_ip: the port is looked up unless
\* port_id is given, then the floating ip is created and its wrapped delete
\* registered.
create_floating_ip(t, thing, port_id, ports, fail) ==
    LET r == Len(t.remote) + 1
        t1 == IF port_id THEN t ELSE _get_server_port_id(t, thing, ports, fail)
        t2 == remote_create(t1, "floatingip",
                            Outcome(fail, "create", "Exception"))
        t3 == addCleanup(t2, Act("delete_floatingip", TRUE, r))
    IN Return(t3, r)

\* NetworkScenarioTest._create_pool.
_create_pool(t, fail) ==
    LET r == Len(t.remote) + 1
        t1 == remote_create(t, "pool", Outcome(fail, "create", "Exception"))
        t2 == assertEqual(t1, "name", r, fail # "assert")
        t3 == addCleanup(t2, Act("delete_pool", TRUE, r))
    IN Return(t3, r)

\* NetworkScenarioTest._create_member: a member of the pool pool_id.
_create_member(t, pool_id, fail) ==
    LET r == Len(t.remote) + 1
        t1 == remote_create_with(t, "member", pool_id,
                                 Outcome(fail, "create", "Exception"), "",
                                 <<>>)
        t2 == addCleanup(t1, Act("delete_member", TRUE, r))
    IN Return(t2, r)

\* NetworkScenarioTest._create_vip: a vip of the pool pool_id.
_create_vip(t, pool_id, fail) ==
    LET r == Len(t.remote) + 1
        t1 == remote_create_with(t, "vip", pool_id,
                                 Outcome(fail, "create", "Exception"), "",
                                 <<>>)
        t2 == assertEqual(t1, "name", r, fail # "assert")
        t3 == addCleanup(t2, Act("delete_vip", TRUE, r))
    IN Return(t3, r)

\* CONF.network.public_router_id and public_network_id: set or not.
RouterConfs == [public_router_id : BOOLEAN, public_network_id : BOOLEAN]
ConfName(conf) ==
    IF conf.public_router_id /\ conf.public_network_id THEN "router+network"
    ELSE IF conf.public_router_id THEN "router"
    ELSE IF conf.public_network_id THEN "network"
    ELSE "neither"
\* The test body calls a factory under a configuration.
CalledWith(name, arg, param) ==
    Emit(Self, Ev("call", name, arg, "", param, "body"))

NetworksFails ==
    {<<"none", "none">>, <<"network", "create">>, <<"network", "assert">>,
     <<"network", "empty">>,
     <<"router", "show">>, <<"router", "create">>, <<"router", "assert">>,
     <<"router", "gateway">>, <<"subnet", "attach">>}

\* Factory calls in one test body of SpecTopo, and resources that disappear
\* without a delete of the test.
MaxBuilds == 2
MaxCascades == 1
CanBuild == phase = "body" /\ Calls < MaxBuilds

\* A test of NetworkScenarioTest or SwiftScenarioTest that builds chains of
\* resources.
InitTopo ==
    /\ cls \in {"NetworkScenarioTest", "SwiftScenarioTest"}
    /\ phase = "new"
    /\ cleanups = <<>>
    /\ cleanup_waits = <<>>
    /\ remote = <<>>
    /\ log = <<>>
    /\ errors = <<>>

\* The log notes the router the call returned.
GetRouter ==
    /\ CanBuild /\ cls = "NetworkScenarioTest"
    /\ \E conf \in RouterConfs,
          fail \in {"none", "show", "create", "assert", "gateway"} :
          LET t == _get_router(CalledWith("_get_router", 0, ConfName(conf)),
                               conf, fail)
          IN BodyStep(IF t.exc # "none" THEN t
                      ELSE Emit(t, Ev("return", "_get_router", t.ret[1], "",
                                      "", "body")))

CreateNetworks ==
    /\ CanBuild /\ cls = "NetworkScenarioTest"
    /\ \E driver_enabled \in BOOLEAN, conf \in RouterConfs,
          fail \in NetworksFails,
          answers \in [1..NumBlocks -> {"ok", "overlap", "error"}] :
          BodyStep(create_networks(
                       CalledWith("create_networks", 0,
                                  IF driver_enabled THEN "baremetal"
                                  ELSE ConfName(conf)),
                       driver_enabled, conf, fail, answers))

CreateFloatingIp ==
    /\ CanBuild /\ cls = "NetworkScenarioTest"
    /\ \E port_id \in BOOLEAN, ports \in 0..MaxPorts,
          fail \in {"none", "list", "create"} :
          BodyStep(create_floating_ip(
                       CalledWith("create_floating_ip", 0,
                                  IF port_id THEN "port_id" ELSE "no port_id"),
                       0, port_id, ports, fail))

CreatePool ==
    /\ CanBuild /\ cls = "NetworkScenarioTest"
    /\ \E fail \in {"none", "create", "assert"} :
          BodyStep(_create_pool(Called("_create_pool", 0), fail))

CreateMember ==
    /\ CanBuild /\ cls = "NetworkScenarioTest"
    /\ \E pool \in Held("pool"), fail \in {"none", "create"} :
          BodyStep(_create_member(Called("_create_member", pool), pool, fail))

CreateVip ==
    /\ CanBuild /\ cls = "NetworkScenarioTest"
    /\ \E pool \in Held("pool"), fail \in {"none", "create", "assert"} :
          BodyStep(_create_vip(Called("_create_vip", pool), pool, fail))

CreateSecurityGroupWithRules ==
    /\ CanBuild /\ cls = "NetworkScenarioTest"
    /\ \E fail \in {"none", "create", "assert"},
          answers \in [1..Len(LoginableRulesets) -> {"ok", "error"}] :
          BodyStep(Network_create_security_group(
              Called("_create_security_group", 0), fail, answers))

CreateContainerCalled ==
    /\ CanBuild /\ cls = "SwiftScenarioTest"
    /\ \E fail \in {"none", "create", "list"} :
          BodyStep(create_container(Called("create_container", 0), fail))

UploadObjectTo ==
    /\ CanBuild /\ cls = "SwiftScenarioTest"
    /\ \E container \in Held("container"), fail \in {"none", "create"} :
          BodyStep(upload_object_to_container(
                       Called("upload_object_to_container", container),
                       fail))

\* The environment, in the test body and at teardown: a resource disappears
\* without a delete of the test (a cascading delete, another actor).
RemoteCascade ==
    /\ phase \in {"body", "teardown"}
    /\ Cardinality({r \in 1..Len(remote) : remote[r].st = "gone"})
           < MaxCascades
    /\ \E r \in 1..Len(remote) :
          /\ remote[r].st \in {"active", "deleting"}
          /\ remote' = [remote EXCEPT ![r].st = "gone"]
    /\ UNCHANGED <<cls, phase, cleanups, cleanup_waits, log, errors>>

NextTopo ==
    \/ setUp
    \/ GetRouter
    \/ CreateNetworks
    \/ CreateFloatingIp
    \/ CreatePool
    \/ CreateMember
    \/ CreateVip
    \/ CreateSecurityGroupWithRules
    \/ CreateContainerCalled
    \/ UploadObjectTo
    \/ RemoteCascade
    \/ EndBody
    \/ doCleanupsAccepted
    \/ Finish

SpecTopo == InitTopo /\ [][NextTopo]_vars

\* ------------------------------------------- the tests of one class
\* Tests of one class run one after the other, and the resources that all
\* of them create.
MaxTests == 2
MaxSuiteRes == 3
TestsStarted == Cardinality(Positions(LAMBDA e : e.ev = "test")) + 1

CreateVolumeInSuite ==
    /\ phase = "body" /\ Len(remote) < MaxSuiteRes
    /\ \E wait_on_delete \in BOOLEAN, fail \in {"none", "create"} :
          BodyStep(create_volume(Self, wait_on_delete, fail))

\* The runner starts the next test of the class: its cleanup stack is empty
\* and its cleanup_waits is not set before setUp; the model leaves there
\* what the previous test left.
NextTest ==
    /\ phase = "done" /\ TestsStarted < MaxTests
    /\ phase' = "new"
    /\ cleanups' = <<>>
    /\ log' = Append(log, Ev("test", "", 0, "", "", "body"))
    /\ UNCHANGED <<cls, cleanup_waits, remote, errors>>

InitSuite ==
    /\ cls = "ScenarioTest"
    /\ phase = "new"
    /\ cleanups = <<>>
    /\ cleanup_waits = <<>>
    /\ remote = <<>>
    /\ log = <<>>
    /\ errors = <<>>

NextSuite ==
    \/ setUp
    \/ CreateVolumeInSuite
    \/ EndBody
    \/ doCleanups
    \/ Finish
    \/ NextTest

SpecSuite == InitSuite /\ [][NextSuite]_vars

\* ------------------------------------------------ waits on a node
\* What a lookup of the node by instance id, and a look at its power or
\* provision state, may give.
NodeLookups == {"node", "none", "NotFound"}
PowerLooks == PowerStates \cup {"NotFound"}
ProvisionLooks == {"deploying", "active", "NotFound"}

InitNode ==
    /\ cls = "BaremetalScenarioTest"
    /\ phase = "new"
    /\ cleanups = <<>>
    /\ cleanup_waits = <<>>
    /\ remote = <<>>
    /\ log = <<>>
    /\ errors = <<>>

WaitNode ==
    /\ CanCheck
    /\ \E looked \in [1..PollTicks -> NodeLookups] :
          BodyStep(wait_node(Called("wait_node", 0), 0, looked))

WaitPowerState ==
    /\ CanCheck
    /\ \E state \in PowerStates, observed \in [1..PollTicks -> PowerLooks] :
          BodyStep(wait_power_state(Called("wait_power_state", 0), 0, state,
                                    observed))

WaitProvisioningState ==
    /\ CanCheck
    /\ \E observed \in [1..PollTicks -> ProvisionLooks] :
          BodyStep(wait_provisioning_state(
                       Called("wait_provisioning_state", 0), 0, {"active"},
                       "active", observed))

NextNode ==
    \/ setUp
    \/ WaitNode
    \/ WaitPowerState
    \/ WaitProvisioningState
    \/ EndBody
    \/ doCleanupsAccepted
    \/ Finish

SpecNode == InitNode /\ [][NextNode]_vars

\* ================================================================ claims
\* The cleanups registered, and the cleanups run, in the order of the log.
Key(e) == <<e.call, e.res>>
KeysOf(evs) == [i \in 1..Len(evs) |-> Key(evs[i])]
Registered == KeysOf(SelectSeq(log, LAMBDA e : e.ev = "register"))
Ran == KeysOf(SelectSeq(log, LAMBDA e : e.ev = "run"))
Count(s, k) == Cardinality({i \in 1..Len(s) : s[i] = k})
IsPrefix(s, u) == Len(s) <= Len(u) /\ s = SubSeq(u, 1, Len(s))

\* C1: the cleanups registered A1..An (by the factories and by the test
\* itself) are run at teardown in the order An..A1: what has run so far is
\* the start of the reverse of the registrations, and all of it at the end.
C1_LifoOrder ==
    /\ phase \in {"teardown", "done"} => IsPrefix(Ran, Reverse(Registered))
    /\ phase = "done" => Ran = Reverse(Registered)

C1_Witness ==
    /\ phase = "done"
    /\ Len(Ran) >= 4
    /\ \E i \in 1..Len(Ran) : Ran[i][1] = "callable"
    /\ \E i \in 1..Len(Ran) : Ran[i][1] = "delete_volume"

\* The wait descriptors registered, and the waiters the drain has called.
WaitKey(e) == <<e.call, e.res, e.param>>
WaitKeysOf(evs) == [i \in 1..Len(evs) |-> WaitKey(evs[i])]
WaitsRegistered ==
    WaitKeysOf(SelectSeq(log, LAMBDA e : e.ev = "register_wait"))
DrainWaits ==
    WaitKeysOf(SelectSeq(log, LAMBDA e : e.ev = "waiter" /\ e.via = "drain"))
\* The resources registered through addCleanup_with_wait.
AsyncRes == {log[i].res : i \in Positions(LAMBDA e : e.ev = "register_wait")}
\* A waiter that some wait descriptor names, called on that descriptor's id.
IsRegisteredWaiter(e) ==
    /\ e.ev = "waiter"
    /\ \E j \in 1..Len(log) : /\ log[j].ev = "register_wait"
                              /\ log[j].call = e.call /\ log[j].res = e.res
TeardownDeleteBefore(i, r) ==
    \E j \in 1..(i - 1) : /\ log[j].ev = "remote_delete"
                          /\ log[j].via = "cleanup" /\ log[j].res = r
DrainTimedOut ==
    \E i \in 1..Len(log) : /\ log[i].ev = "waiter" /\ log[i].via = "drain"
                           /\ log[i].out = "TimeoutException"

\* C2, as stated: at teardown no waiter of a wait descriptor is called
\* before the delete of every addCleanup_with_wait registration is issued.
C2_NoWaiterBeforeDeletes ==
    \A i \in 1..Len(log) :
        IsRegisteredWaiter(log[i]) /\ log[i].via # "body"
        => \A r \in AsyncRes : TeardownDeleteBefore(i, r)

\* C2, amended: the drain (_wait_for_cleanups) calls no waiter before the
\* delete of every addCleanup_with_wait registration is issued, and it calls
\* the waiters in the order of their registrations, all of them unless one
\* raises.
C2_DrainAfterDeletes ==
    /\ \A i \in 1..Len(log) :
           log[i].ev = "waiter" /\ log[i].via = "drain"
           => \A r \in AsyncRes : TeardownDeleteBefore(i, r)
    /\ IsPrefix(DrainWaits, WaitsRegistered)
    /\ phase = "done" /\ ~DrainTimedOut => DrainWaits = WaitsRegistered

C2_Witness ==
    /\ phase = "done"
    /\ Len(DrainWaits) = 2
    /\ DrainWaits[1][2] # DrainWaits[2][2]
    /\ ~C2_NoWaiterBeforeDeletes

\* C3: no cleanup of a resource that is already gone raises: the test
\* result holds no NotFound raised at teardown.
C3_NotFoundNeverRaised ==
    \A i \in 1..Len(errors) :
        ~(errors[i].phase = "teardown" /\ errors[i].exc = "NotFound")

\* C4: a readiness wait of create_server, create_volume or
\* create_server_snapshot that raises is followed at teardown by a delete
\* of the resource waited for.
C4_DeleteAfterFailedReadyWait ==
    phase = "done" =>
        \A i \in 1..Len(log) :
            /\ log[i].ev = "ready_wait"
            /\ log[i].out = "TimeoutException"
            /\ log[i].call \in {"wait_for_server_status",
                                "wait_for_volume_status",
                                "wait_for_image_status"}
            => \E j \in (i + 1)..Len(log) :
                   /\ log[j].ev = "remote_delete" /\ log[j].via = "cleanup"
                   /\ log[j].res = log[i].res

\* C5: a failed assertion on the response of a create is followed at
\* teardown by a delete of the resource just created.
C5_DeleteAfterFailedAssert ==
    phase = "done" =>
        \A i \in 1..Len(log) :
            /\ log[i].ev = "assert" /\ log[i].out = "AssertionError"
            /\ log[i].via = "body"
            /\ log[i].call \in {"name", "display_name", "status"}
            => \E j \in (i + 1)..Len(log) :
                   /\ log[j].ev = "remote_delete" /\ log[j].via = "cleanup"
                   /\ log[j].res = log[i].res

\* C6: a waiter that times out in the drain fails the test: the
\* TimeoutException leaves _wait_for_cleanups and is in the test result.
C6_DrainTimeoutFailsTest ==
    DrainTimedOut =>
        \E i \in 1..Len(errors) :
            /\ errors[i].phase = "teardown"
            /\ errors[i].exc = "TimeoutException"
            /\ errors[i].call = "_wait_for_cleanups"

C6_Witness ==
    /\ phase = "done"
    /\ DrainTimedOut
    /\ \E i \in 1..Len(log) : /\ log[i].ev = "remote_delete"
                              /\ log[i].via = "cleanup"
                              /\ log[i].out = "NotFound"
    /\ Len(errors) = 1

Deletes(r, via) ==
    Cardinality({i \in 1..Len(log) : /\ log[i].ev = "remote_delete"
                                     /\ log[i].res = r /\ log[i].via = via})
HeldRes == {r \in 1..Len(remote) : remote[r].held}

\* C8, as stated: over the life of the test the remote delete of a resource
\* a factory returned is issued exactly once.
C8_DeletedOnce ==
    phase = "done" =>
        \A r \in HeldRes : Deletes(r, "body") + Deletes(r, "cleanup") = 1

\* C8, amended: the cleanup ledger issues the remote delete of a resource
\* a factory returned exactly once, at teardown, whether or not the test
\* has deleted the resource itself; before teardown it issues none.
C8_LedgerDeletesOnce ==
    /\ phase = "done" => \A r \in HeldRes : Deletes(r, "cleanup") = 1
    /\ phase = "body" => \A r \in HeldRes : Deletes(r, "cleanup") = 0

C8_Witness ==
    /\ phase = "done"
    /\ errors = <<>>
    /\ \E r \in HeldRes :
           /\ Deletes(r, "body") = 1 /\ Deletes(r, "cleanup") = 1
           /\ \E i \in 1..Len(log) :
                  /\ log[i].ev = "remote_delete" /\ log[i].res = r
                  /\ log[i].via = "cleanup" /\ log[i].out = "NotFound"

\* A remote create answered by a Conflict, and whether its message names
\* the cause the factory may tolerate.
IsConflict(e) == e.ev = "create" /\ e.out = "Conflict"
RuleExists(e) ==
    IsConflict(e) /\ e.call = "security_group_rule" /\ e.param = "exists"
Benign(e) ==
    \/ RuleExists(e)
    \/ IsConflict(e) /\ e.call = "subnet" /\ e.param = "overlap"
\* The exception of the i-th event left the factory: it ended the test body
\* (nothing of the body follows it) and is in the test result.
Propagated(i, exc) ==
    /\ phase # "body"
    /\ \A j \in (i + 1)..Len(log) : log[j].via # "body"
    /\ \E k \in 1..Len(errors) :
           errors[k].phase = "body" /\ errors[k].exc = exc
\* The attempts to create a rule made by the factory call the i-th event
\* belongs to.
CallOf(i) ==
    CHOOSE c \in 1..i : /\ log[c].ev = "call"
                        /\ \A d \in (c + 1)..i : log[d].ev # "call"
RuleAttempts(i) ==
    {j \in CallOf(i)..Len(log) :
        /\ log[j].ev = "create" /\ log[j].call = "security_group_rule"
        /\ \A d \in (CallOf(i) + 1)..j : log[d].ev # "call"}
LoginableRules ==
    IF cls = "NetworkScenarioTest" THEN Len(LoginableRulesets)
    ELSE Len(NovaRulesets)

\* C9: a loginable rule whose create is answered by the 'already exists'
\* Conflict is skipped: the Conflict does not leave the factory, and the
\* rules after it are still attempted.
C9_ExistingRuleSkipped ==
    \A i \in 1..Len(log) :
        RuleExists(log[i])
        => /\ ~Propagated(i, "Conflict")
           /\ \/ \E j \in RuleAttempts(i) : j > i
              \/ Cardinality(RuleAttempts(i)) = LoginableRules

\* C10: a Conflict of a remote create whose message does not name the
\* benign cause (the rule already exists, the subnet overlaps) leaves the
\* factory at once: no create is attempted after it.
C10_OtherConflictPropagates ==
    \A i \in 1..Len(log) :
        IsConflict(log[i]) /\ ~Benign(log[i]) => Propagated(i, "Conflict")

C10_Witness ==
    /\ phase = "done"
    /\ cls = "NetworkScenarioTest"
    /\ \E i \in 1..Len(log), j \in 1..Len(log) :
           /\ i < j
           /\ RuleExists(log[i])
           /\ IsConflict(log[j]) /\ ~Benign(log[j])
           /\ CallOf(i) = CallOf(j)

\* The calls of _create_subnet in the log, the events of one call, and the
\* blocks its loop went over (skipped or asked for), in the order of the log.
SubnetCalls ==
    Positions(LAMBDA e : e.ev = "call" /\ e.call = "_create_subnet")
Seg(c) ==
    {j \in c..Len(log) : /\ log[j].via = "body"
                         /\ \A d \in (c + 1)..j : log[d].ev # "call"}
Walk(c) ==
    {j \in Seg(c) : log[j].ev \in {"skip", "attempt"} /\ log[j].call = "subnet"}
SubnetCreates(c) ==
    {j \in Seg(c) : log[j].ev = "create" /\ log[j].call = "subnet"}
\* The blocks the tenant's subnets held before the j-th event.
BlocksBefore(j) ==
    {remote[r].attr :
        r \in {q \in 1..Len(remote) :
                  /\ remote[q].kind = "subnet"
                  /\ \A k \in j..Len(log) :
                         ~(log[k].ev = "create" /\ log[k].res = q)}}
Overlap(e) == IsConflict(e) /\ e.call = "subnet" /\ e.param = "overlap"

\* C11: _create_subnet walks the blocks in order from the first; a block in
\* use is skipped with no create, a create answered by the overlap Conflict
\* moves on to the next block, the walk stops at the first create that
\* succeeds, and the subnet returned is on the block of that create.
C11_SubnetWalk ==
    \A c \in SubnetCalls :
        /\ \A j \in Walk(c) :
               /\ log[j].res = Cardinality({k \in Walk(c) : k <= j})
               /\ (log[j].ev = "skip") <=> (log[j].res \in BlocksBefore(j))
               /\ log[j].ev = "skip" /\ log[j].res < NumBlocks
                  => j + 1 \in Walk(c)
               /\ log[j].ev = "attempt"
                  => /\ j + 1 \in SubnetCreates(c)
                     /\ Overlap(log[j + 1]) /\ log[j].res < NumBlocks
                        => j + 2 \in Walk(c)
                     /\ log[j + 1].out = "ok"
                        => /\ \A k \in Walk(c) : k <= j
                           /\ remote[log[j + 1].res].attr = log[j].res
                           /\ log[j + 1].param = "ok"
                              => remote[log[j + 1].res].held
        /\ \A j \in SubnetCreates(c) :
               j - 1 \in Walk(c) /\ log[j - 1].ev = "attempt"
        /\ \A r \in 1..Len(remote) :
               /\ remote[r].kind = "subnet" /\ remote[r].held
               /\ \E j \in SubnetCreates(c) : log[j].res = r
               => \A j \in SubnetCreates(c) :
                      log[j].out = "ok" => log[j].res = r

C11_Witness ==
    /\ phase = "done"
    /\ \E c \in SubnetCalls :
           \E j \in SubnetCreates(c) :
               /\ Overlap(log[j])
               /\ j + 2 \in SubnetCreates(c) /\ log[j + 2].out = "ok"
               /\ remote[log[j + 2].res].held
               /\ remote[log[j + 2].res].attr = 2
    /\ \E c \in SubnetCalls : \E j \in Walk(c) : log[j].ev = "skip"

\* The call found no block: every block was in use or overlapping.
Exhausted(c) ==
    \A j \in SubnetCreates(c) : Overlap(log[j])
AllocationFailure(c) ==
    \E j \in Seg(c) :
        /\ log[j].ev = "assert"
        /\ log[j].call = "Unable to allocate tenant network"
        /\ log[j].out = "AssertionError"
        /\ \A k \in Seg(c) : k <= j
        /\ Propagated(j, "AssertionError")

\* C12: a call of _create_subnet makes at most NumBlocks create attempts,
\* and when every block is in use or overlapping it ends with the
\* AssertionError 'Unable to allocate tenant network' and nothing else.
C12_SubnetExhaustion ==
    \A c \in SubnetCalls :
        /\ Cardinality(SubnetCreates(c)) <= NumBlocks
        /\ Cardinality(Walk(c)) <= NumBlocks
        /\ Exhausted(c) <=> AllocationFailure(c)

C12_Witness ==
    /\ phase = "done"
    /\ \E c \in SubnetCalls :
           /\ AllocationFailure(c)
           /\ Cardinality(Walk(c)) = NumBlocks
           /\ \E j \in Walk(c) : log[j].ev = "skip"
           /\ \E j \in SubnetCreates(c) : Overlap(log[j])

\* C13: no two subnets that calls of _create_subnet returned are on the
\* same block, nor is one on a block the tenant already had a subnet on.
ReturnedSubnets ==
    {r \in 1..Len(remote) : remote[r].kind = "subnet" /\ remote[r].held}
C13_DistinctBlocks ==
    \A r \in ReturnedSubnets :
        \A q \in 1..Len(remote) :
            remote[q].kind = "subnet" /\ q # r
            => remote[q].attr # remote[r].attr

C13_Witness ==
    /\ phase = "done"
    /\ Cardinality(ReturnedSubnets) = 2

\* The calls of check_vm_connectivity in the log and the events of one call
\* (those of the capture that may follow its failure included).
Checks == Positions(LAMBDA e : e.ev = "check")
CheckSeg(c) ==
    {j \in c..Len(log) : /\ log[j].via = "body"
                         /\ \A d \in (c + 1)..j :
                                log[d].ev \notin {"check", "call"}}
SshIn(c) == {j \in CheckSeg(c) : log[j].ev = "ssh"}
PingTrueIn(c) ==
    {j \in CheckSeg(c) : /\ log[j].ev = "poll" /\ log[j].call = "ping"
                         /\ log[j].out = "true"}
CheckFailed(c) ==
    \E j \in CheckSeg(c) : log[j].ev = "assert" /\ log[j].out = "AssertionError"
CheckPassed(c) ==
    \E j \in CheckSeg(c) : log[j].ev = "assert" /\ log[j].out = "ok"
BodyFailed == \E k \in 1..Len(errors) : errors[k].phase = "body"

\* C14: a check_vm_connectivity with should_connect=False opens no ssh
\* session, whether the ping check passed or failed.
C14_NoSshWhenNotExpected ==
    \A c \in Checks : log[c].param = "no_connect" => SshIn(c) = {}

C14_Witness ==
    /\ phase = "done"
    /\ \E c \in Checks : log[c].param = "no_connect" /\ CheckPassed(c)
    /\ \E c \in Checks : log[c].param = "no_connect" /\ CheckFailed(c)

\* C15: with should_connect=True an ssh session is opened only after a ping
\* of this check succeeded within the ping timeout; when no ping succeeds
\* the check fails, the test body ends in error and no ssh session is
\* opened.
C15_SshOnlyAfterPing ==
    \A c \in Checks :
        log[c].param = "connect"
        => /\ \A j \in SshIn(c) : \E i \in PingTrueIn(c) : i < j
           /\ Cardinality({j \in CheckSeg(c) : log[j].ev = "poll"})
                  <= PollTicks
           /\ PingTrueIn(c) = {}
              => CheckFailed(c) /\ SshIn(c) = {} /\ BodyFailed

C15_Witness ==
    /\ phase = "done"
    /\ \E c \in Checks :
           /\ log[c].param = "connect"
           /\ log[c + 1].ev = "poll" /\ log[c + 1].out = "false"
           /\ SshIn(c) # {}
    /\ \E c \in Checks : log[c].param = "connect" /\ PingTrueIn(c) = {}

\* C16: with should_connect=False the check fails exactly when the address
\* answers ping at the end of the ping timeout.
C16_JudgedAfterTimeout ==
    \A c \in Checks :
        log[c].param = "no_connect"
        => (CheckFailed(c) <=> remote[log[c].res].attr[PollTicks])

\* The exception that left check_vm_connectivity, read off the event before
\* the capture of the console output.
OriginalFailure(j) ==
    IF log[j - 1].ev = "capture" /\ log[j - 1].out = "ok" THEN "SSHTimeout"
    ELSE log[j - 1].out

\* C17: when a connectivity check fails, what propagates after the capture
\* of the console output and of the network debug is the exception of the
\* check itself.
C17_OriginalFailurePropagates ==
    \A j \in 1..Len(log) :
        log[j].ev = "capture" /\ log[j].call = "_log_console_output"
        => \E k \in 1..Len(errors) :
               errors[k].phase = "body" /\ errors[k].exc = OriginalFailure(j)

\* The events of one call of boot_instance, and the stage of an event.
BootCalls == Positions(LAMBDA e : e.ev = "call" /\ e.call = "boot_instance")
Stage(e) ==
    IF e.ev \in {"create", "register", "register_wait", "assert"} THEN 1
    ELSE IF e.call \in {"_get_node", "node by instance id",
                        "show_node_by_instance_uuid"} THEN 2
    ELSE IF e.call = "power_state" THEN 3
    ELSE IF e.call = "provision_state"
    THEN (IF e.param = "wait call-back, active" THEN 4 ELSE 5)
    ELSE IF e.ev = "ready_wait" THEN 6
    ELSE 0
StageDone(e) ==
    \/ e.ev = "assert" /\ e.call = "name" /\ e.out = "ok"
    \/ e.ev = "get_node" /\ e.out = "ok"
    \/ e.ev = "poll_return" /\ e.out = "true" /\ Stage(e) \in 3..5
    \/ e.ev = "ready_wait" /\ e.out = "ok"
Timeouts == Positions(LAMBDA e : e.ev = "timeout")

\* C18: the events of boot_instance are in the order of its stages (create
\* the server without waiting, node association, power on, provision state
\* wait call-back or active, provision state active, server ACTIVE), and a
\* stage has events only when the stage before it succeeded.
C18_BootStagesInOrder ==
    \A c \in BootCalls :
        \A j \in Seg(c) \ {c} :
            /\ Stage(log[j]) \in 1..6
            /\ \A i \in Seg(c) \ {c} : i < j => Stage(log[i]) <= Stage(log[j])
            /\ Stage(log[j]) > 1
               => \E i \in Seg(c) : /\ i < j
                                    /\ Stage(log[i]) = Stage(log[j]) - 1
                                    /\ StageDone(log[i])

C18_Witness ==
    /\ phase = "done"
    /\ errors = <<>>
    /\ \E c \in BootCalls :
           /\ \E j \in Seg(c) : log[j].ev = "ready_wait" /\ log[j].out = "ok"
           /\ \E j \in Seg(c) : /\ log[j].ev = "poll" /\ log[j].out = "false"
                                /\ Stage(log[j]) = 5

\* C19: a stage of the boot whose poll returns false raises a
\* TimeoutException that names the stage and its target states; the
\* exception ends the test body, so no later stage starts.
C19_StageTimeout ==
    \A j \in 1..Len(log) :
        /\ log[j].ev = "poll_return" /\ log[j].out = "false"
        /\ log[j].call \in {"_get_node", "power_state", "provision_state"}
        => /\ j + 1 \in Timeouts
           /\ log[j + 1].out = "TimeoutException"
           /\ log[j + 1].call = (IF log[j].call = "_get_node"
                                 THEN "node by instance id" ELSE log[j].call)
           /\ log[j + 1].param = log[j].param
           /\ Propagated(j + 1, "TimeoutException")

C19_Witness ==
    /\ phase = "done"
    /\ \E j \in Timeouts :
           /\ log[j].call = "provision_state"
           /\ log[j].param = "wait call-back, active"
           /\ \E i \in 1..(j - 1) : /\ log[i].ev = "poll_return"
                                    /\ log[i].call = "power_state"
                                    /\ log[i].out = "true"

\* The attempts of the poll that returned at the j-th event.
PollReturns == Positions(LAMBDA e : e.ev = "poll_return")
Attempts(j) ==
    {i \in 1..(j - 1) : \A d \in i..(j - 1) : log[d].ev = "poll"}
LastBodyEvent(j) == \A k \in (j + 1)..Len(log) : log[k].via # "body"

\* C20: a poll returns true exactly when one of its attempts returned true
\* (the last one: it stops there), returns false after all the attempts of
\* its timeout returned false, and an attempt that neither returns true nor
\* false raised; a false result raises nothing in the poll: it is the caller
\* that fails on it (an assertion in check_vm_connectivity and in
\* check_floating_ip_status, a TimeoutException in the bare-metal waits) or
\* hands it to the test (_check_remote_connectivity).
C20_PollResult ==
    /\ \A j \in PollReturns :
           /\ Attempts(j) # {}
           /\ log[j].out = "true"
              <=> \E i \in Attempts(j) : log[i].out = "true"
           /\ \A i \in Attempts(j) : log[i].out = "true" => i = j - 1
           /\ log[j].out = "false" => Cardinality(Attempts(j)) = PollTicks
           /\ log[j].out = "false"
              => IF log[j].call \in {"ping", "refresh"}
                 THEN /\ j + 1 <= Len(log)
                      /\ log[j + 1].ev = "assert"
                      /\ log[j + 1].out = "AssertionError"
                 ELSE IF log[j].call = "ping_remote"
                 THEN LastBodyEvent(j) => ~BodyFailed
                 ELSE j + 1 \in Timeouts
    /\ \A i \in 1..Len(log) :
           log[i].ev = "poll"
           => \/ log[i].out \notin {"true", "false"}
              \/ i + 1 <= Len(log) /\ log[i + 1].ev \in {"poll", "poll_return"}

C20_Witness ==
    /\ phase = "done"
    /\ \E j \in PollReturns :
           log[j].out = "true" /\ Cardinality(Attempts(j)) = PollTicks
    /\ \E j \in PollReturns : log[j].out = "false" /\ log[j].call = "ping"

\* The teardown deletes, those issued through delete_wrapper, and the runs
\* of cleanups.
TeardownDeletes ==
    {i \in 1..Len(log) : log[i].ev = "remote_delete" /\ log[i].via = "cleanup"}
WrappedDeletes ==
    {i \in TeardownDeletes :
        \E k \in 1..Len(log) : /\ log[k].ev = "register"
                               /\ log[k].call = log[i].call
                               /\ log[k].res = log[i].res
                               /\ log[k].out = "wrapped"}
Runs == {i \in 1..Len(log) : log[i].ev = "run"}

\* C24: delete_wrapper ignores NotFound only: any other exception of the
\* delete is an error of the teardown, a NotFound in the test result comes
\* from a delete registered without delete_wrapper, and the delete is called
\* once for each run of the cleanup.
C24_OnlyNotFoundSwallowed ==
    LET W == WrappedDeletes IN
    /\ \A i \in W :
           /\ i - 1 \in Runs
           /\ log[i - 1].call = log[i].call /\ log[i - 1].res = log[i].res
           /\ i + 1 <= Len(log) => log[i + 1].ev # "remote_delete"
           /\ log[i].out \notin {"ok", "NotFound"}
              => \E k \in 1..Len(errors) : /\ errors[k].phase = "teardown"
                                           /\ errors[k].call = log[i].call
                                           /\ errors[k].exc = log[i].out
    /\ \A k \in 1..Len(errors) :
           errors[k].phase = "teardown" /\ errors[k].exc = "NotFound"
           => \E i \in TeardownDeletes \ W :
                  log[i].call = errors[k].call /\ log[i].out = "NotFound"
    /\ Cardinality({i \in TeardownDeletes : log[i].out = "Forbidden"})
           = Cardinality({k \in 1..Len(errors) :
                             /\ errors[k].phase = "teardown"
                             /\ errors[k].exc = "Forbidden"})

C24_Witness ==
    /\ phase = "done"
    /\ \E i \in WrappedDeletes : log[i].out = "Forbidden"
    /\ \E i \in WrappedDeletes : log[i].out = "NotFound"
    /\ Len(errors) = 1

\* The servers whose termination wait is a cleanup of its own
\* (create_server with wait_on_delete=True), and the first run after a
\* position of the log.
SyncWaited(call) ==
    {log[k].res : k \in Positions(LAMBDA e : e.ev = "register"
                                             /\ e.call = call)}
NextRun(i) ==
    IF \E j \in Runs : j > i
    THEN {CHOOSE j \in Runs : j > i /\ \A k \in Runs : k > i => j <= k}
    ELSE {}

\* C27: at teardown the termination wait of a server created with
\* wait_on_delete=True is the cleanup that runs next after the server's
\* delete: the delete is issued, then the wait is called, and no other
\* cleanup runs in between.
C27_SyncServerDelete ==
    /\ \A i \in Runs :
           log[i].call = "wait_for_server_termination"
           => /\ i >= 3
              /\ log[i - 2].ev = "run" /\ log[i - 2].call = "delete_server"
              /\ log[i - 2].res = log[i].res
              /\ log[i - 1].ev = "remote_delete"
              /\ log[i - 1].res = log[i].res
    /\ \A i \in Runs :
           /\ log[i].call = "delete_server"
           /\ log[i].res \in SyncWaited("wait_for_server_termination")
           => /\ \A j \in NextRun(i) :
                     /\ log[j].call = "wait_for_server_termination"
                     /\ log[j].res = log[i].res
              /\ phase = "done" => NextRun(i) # {}

C27_Witness ==
    /\ phase = "done"
    /\ \E i \in Runs :
           /\ log[i].call = "wait_for_server_termination"
           /\ \E j \in Runs : j > i /\ log[j].call = "delete_volume"
           /\ log[i + 1].ev = "waiter" /\ log[i + 1].out = "ok"

\* The volumes created, by the wait preference of the caller.
Volumes ==
    {log[k].res : k \in Positions(LAMBDA e : /\ e.ev = "create"
                                             /\ e.call = "volume"
                                             /\ e.out = "ok")}
WaitOnDelete(r) ==
    \E k \in 1..Len(log) : /\ log[k].ev = "option" /\ log[k].res = r
                           /\ log[k].param = "wait_on_delete"
Queued(r) ==
    Cardinality({k \in 1..Len(log) : log[k].ev = "register_wait"
                                     /\ log[k].res = r})
WaitsOf(r, via) ==
    {k \in 1..Len(log) : /\ log[k].ev = "waiter" /\ log[k].res = r
                         /\ log[k].via = via}

\* C28: a volume's deletion is waited for after its delete is issued; with
\* wait_on_delete=True the wait is the cleanup that runs next after the
\* delete and no wait descriptor is queued; with wait_on_delete=False one
\* wait descriptor is queued and the wait is called in the drain only, after
\* every cleanup of the stack has run.
C28_VolumeWaitPreference ==
    \A r \in Volumes :
        /\ \A k \in WaitsOf(r, "cleanup") \cup WaitsOf(r, "drain") :
               \E d \in 1..(k - 1) : /\ log[d].ev = "remote_delete"
                                     /\ log[d].res = r
        /\ IF WaitOnDelete(r)
           THEN /\ Queued(r) = 0
                /\ r \in SyncWaited("wait_for_resource_deletion")
                /\ WaitsOf(r, "drain") = {}
                /\ \A i \in Runs :
                       log[i].call = "delete_volume" /\ log[i].res = r
                       => /\ \A j \in NextRun(i) :
                                 /\ log[j].call = "wait_for_resource_deletion"
                                 /\ log[j].res = r
                          /\ phase = "done" => NextRun(i) # {}
           ELSE /\ Queued(r) = 1
                /\ WaitsOf(r, "cleanup") = {}
                /\ \A k \in WaitsOf(r, "drain") :
                       /\ \A j \in Runs : j < k
                       /\ Cardinality(Runs) = Len(Registered)

C28_Witness ==
    /\ phase = "done"
    /\ \E r \in Volumes : WaitOnDelete(r) /\ WaitsOf(r, "cleanup") # {}
    /\ \E r \in Volumes : ~WaitOnDelete(r) /\ WaitsOf(r, "drain") # {}

\* The servers for which create_server registered its cleanups.
Servers ==
    {log[k].res : k \in Positions(LAMBDA e : /\ e.ev = "register"
                                             /\ e.call = "delete_server")}
QueuedBefore(q, r) ==
    \E i \in 1..Len(log), j \in 1..Len(log) :
        /\ i < j
        /\ log[i].ev = "register_wait" /\ log[i].res = q
        /\ log[j].ev = "register_wait" /\ log[j].res = r
ExpectedLifoWaits(r) ==
    IF r \in SyncWaited("wait_for_server_termination") THEN 1 ELSE 0

\* C29, as stated: one wait descriptor is queued for a server whatever
\* wait_on_delete is, and at the end of teardown the termination waiter has
\* been called once in the drain, and once more in the LIFO phase when
\* wait_on_delete=True.
C29_ServerWaitedTwice ==
    \A r \in Servers :
        /\ Queued(r) = 1
        /\ phase = "done"
           => /\ Cardinality(WaitsOf(r, "cleanup")) = ExpectedLifoWaits(r)
              /\ Cardinality(WaitsOf(r, "drain")) = 1

\* C29, amended: the same, but the call in the drain is made only when no
\* waiter of a wait descriptor queued before the server's raised; when one
\* did, the drain has ended and the server's waiter is not called there.
C29_ServerWaitedUnlessAborted ==
    \A r \in Servers :
        /\ Queued(r) = 1
        /\ Cardinality(WaitsOf(r, "cleanup")) <= ExpectedLifoWaits(r)
        /\ Cardinality(WaitsOf(r, "drain")) <= 1
        /\ phase = "done"
           => /\ Cardinality(WaitsOf(r, "cleanup")) = ExpectedLifoWaits(r)
              /\ Cardinality(WaitsOf(r, "drain")) =
                     (IF \E k \in 1..Len(log) :
                             /\ log[k].ev = "waiter" /\ log[k].via = "drain"
                             /\ log[k].out # "ok"
                             /\ QueuedBefore(log[k].res, r)
                      THEN 0 ELSE 1)

C29_Witness ==
    /\ phase = "done"
    /\ \E r \in Servers : /\ ExpectedLifoWaits(r) = 1
                          /\ Cardinality(WaitsOf(r, "cleanup")) = 1
                          /\ Cardinality(WaitsOf(r, "drain")) = 1
    /\ Len(WaitsRegistered) = 2

\* C30: a waiter that raises in the drain is the last waiter the drain
\* calls.
C30_DrainAborts ==
    \A i \in 1..Len(log) :
        log[i].ev = "waiter" /\ log[i].via = "drain" /\ log[i].out # "ok"
        => \A j \in (i + 1)..Len(log) :
               ~(log[j].ev = "waiter" /\ log[j].via = "drain")

C30_Witness ==
    /\ phase = "done"
    /\ Len(WaitsRegistered) = 2
    /\ Len(DrainWaits) = 1
    /\ DrainTimedOut

\* The calls of check_floating_ip_status in the log, the refreshes of one
\* call and how the call ended.
FipCalls ==
    Positions(LAMBDA e : e.ev = "call" /\ e.call = "check_floating_ip_status")
Refreshes(c) ==
    {j \in CheckSeg(c) : log[j].ev = "poll" /\ log[j].call = "refresh"}
ReachedStatus(c) == \E j \in Refreshes(c) : log[j].out = "true"
LastCall(c) ==
    \A d \in (c + 1)..Len(log) : log[d].ev \notin {"check", "call"}
FipRaised(c, e) ==
    /\ LastCall(c)
    /\ \E k \in 1..Len(errors) : errors[k].phase = "body" /\ errors[k].exc = e
FipReturned(c) == ~(LastCall(c) /\ BodyFailed)

NotEnabled == phase # "class" /\ log[1].out = "disabled"
SkipEvents == Positions(LAMBDA e : e.ev = "skipException")

\* C23: a class that lacks the service or the extension it needs ends its
\* resource_setup as skipped, not as failed, and the skip is the first
\* thing its resource_setup does: no credentials allocated, no client
\* manager built, no remote call before it.
C23_SkipBeforeAnythingElse ==
    NotEnabled => /\ phase = "skipped"
                  /\ errors = <<>>
                  /\ SkipEvents = {2}
                  /\ Len(log) = 2

\* The direct calls of _get_router in the log and what one call did.
GetRouterCalls == Positions(LAMBDA e : e.ev = "call" /\ e.call = "_get_router")
RouterCreates(c) ==
    {j \in CheckSeg(c) : log[j].ev = "create" /\ log[j].call = "router"}
RegistersIn(c) == {j \in CheckSeg(c) : log[j].ev = "register"}
RemoteCallsIn(c, call) ==
    {j \in CheckSeg(c) : log[j].ev = "remote_call" /\ log[j].call = call}
Returned(c) == {j \in CheckSeg(c) : log[j].ev = "return"}
PublicRouterSet(c) == log[c].param \in {"router", "router+network"}

\* C25: with public_router_id set _get_router shows that router and returns
\* it, creating and registering nothing; otherwise, with public_network_id
\* set, it creates one router, registers its wrapped delete, then sets its
\* gateway to the public network and returns it; with neither set it raises
\* and has called and created nothing.
C25_GetRouter ==
    \A c \in GetRouterCalls :
        /\ PublicRouterSet(c)
           => /\ RouterCreates(c) = {} /\ RegistersIn(c) = {}
              /\ RemoteCallsIn(c, "set_gateway") = {}
              /\ Cardinality(RemoteCallsIn(c, "show_router")) = 1
              /\ \A j \in Returned(c) : log[j].res = 0
        /\ log[c].param = "network"
           => /\ Cardinality(RouterCreates(c)) = 1
              /\ RemoteCallsIn(c, "show_router") = {}
              /\ \A j \in Returned(c) :
                     \E k \in RouterCreates(c), g \in RemoteCallsIn(c, "set_gateway") :
                         /\ log[k].out = "ok" /\ log[k].res = log[j].res
                         /\ \E i \in RegistersIn(c) :
                                /\ k < i /\ i < g
                                /\ log[i].call = "delete_router"
                                /\ log[i].res = log[k].res
                                /\ log[i].out = "wrapped"
                         /\ log[g].res = log[k].res /\ log[g].out = "ok"
                         /\ log[g].param = "public_network"
              /\ \A g \in RemoteCallsIn(c, "set_gateway") :
                     \E i \in RegistersIn(c) : i < g /\ log[i].res = log[g].res
        /\ log[c].param = "neither"
           => /\ CheckSeg(c) = {c}
              /\ Len(remote) = Cardinality(Positions(LAMBDA e :
                                   e.ev = "create" /\ e.out = "ok"))
              /\ FipRaised(c, "Exception")

C25_Witness ==
    /\ phase = "done"
    /\ \E c \in GetRouterCalls :
           log[c].param = "router+network" /\ Returned(c) # {}
    /\ \E c \in GetRouterCalls :
           log[c].param = "network" /\ Returned(c) # {}

\* The calls of create_networks that created a network, a router and a
\* subnet and added the subnet to the router, and the three resources.
NetworksBuilt ==
    {c \in Positions(LAMBDA e : e.ev = "call" /\ e.call = "create_networks") :
        /\ log[c].param = "network"
        /\ \E j \in RemoteCallsIn(c, "add_to_router") : log[j].out = "ok"}
BuiltBy(c) ==
    {log[j].res : j \in {i \in CheckSeg(c) : /\ log[i].ev = "create"
                                             /\ log[i].out = "ok"}}
TeardownDeletesOf(r) ==
    Positions(LAMBDA e : e.ev = "remote_delete" /\ e.via = "cleanup"
                         /\ e.res = r)
TeardownFailed == \E k \in 1..Len(errors) : errors[k].phase = "teardown"

\* C22: once the teardown of a test that built a network, a router and a
\* subnet with create_networks is over, one delete was issued for each of
\* the three, and the teardown has no failure although a delete may have
\* answered NotFound.
C22_NetworksTornDown ==
    phase = "done"
    => \A c \in NetworksBuilt :
           /\ {remote[r].kind : r \in BuiltBy(c)}
                  = {"network", "router", "subnet"}
           /\ \A r \in BuiltBy(c) :
                  /\ Cardinality(TeardownDeletesOf(r)) = 1
                  /\ \A j \in TeardownDeletesOf(r) :
                         log[j].out \in {"ok", "NotFound"}
           /\ ~TeardownFailed

C22_Witness ==
    /\ phase = "done"
    /\ \E c \in NetworksBuilt :
           /\ \E r \in BuiltBy(c) : \E j \in TeardownDeletesOf(r) :
                  log[j].out = "NotFound" /\ remote[r].kind = "router"
           /\ \E r \in BuiltBy(c) : \E j \in TeardownDeletesOf(r) :
                  log[j].out = "ok"

\* The parent of a resource built on another one: the group of a rule, the
\* pool of a member or of a vip, the network a subnet was asked on, the
\* container an object was uploaded to (0: none, or not one of the test).
CreatedAt(r) ==
    CHOOSE j \in 1..Len(log) :
        log[j].ev = "create" /\ log[j].res = r /\ log[j].out = "ok"
AskedAt(r) ==
    CHOOSE k \in 1..CreatedAt(r) :
        /\ log[k].ev \in {"call", "subcall"}
        /\ \A d \in (k + 1)..CreatedAt(r) :
               log[d].ev \notin {"call", "subcall"}
Parent(r) ==
    IF remote[r].kind = "security_group_rule" THEN remote[r].attr[1]
    ELSE IF remote[r].kind \in {"member", "vip"} THEN remote[r].attr
    ELSE IF remote[r].kind \in {"subnet", "object"} THEN log[AskedAt(r)].res
    ELSE 0
Children(kind) ==
    {r \in 1..Len(remote) :
        /\ remote[r].kind = kind /\ Parent(r) # 0
        /\ \E i \in 1..Len(log) : log[i].ev = "register" /\ log[i].res = r}
ChildKinds == {"subnet", "security_group_rule", "object", "member", "vip"}

\* C21: at teardown the delete of a resource whose cleanup a factory
\* registered is issued before the delete of the resource it was built on:
\* subnet before network, rule before security group, object before
\* container, member and vip before pool.
C21_ChildrenDeletedFirst ==
    \A kind \in ChildKinds : \A r \in Children(kind) :
        \A i \in TeardownDeletesOf(Parent(r)) :
            \E j \in TeardownDeletesOf(r) : j < i

C21_Witness ==
    /\ phase = "done"
    /\ \E r \in Children("subnet") :
           /\ remote[Parent(r)].kind = "network"
           /\ TeardownDeletesOf(Parent(r)) # {}
    /\ \E r \in Children("security_group_rule") :
           /\ remote[Parent(r)].kind = "security_group"
           /\ TeardownDeletesOf(Parent(r)) # {}

\* The runs of the drain in the log.
DrainRuns ==
    Positions(LAMBDA e : e.ev = "run" /\ e.call = "_wait_for_cleanups")
RunsBefore(d) == {j \in 1..(d - 1) : log[j].ev = "run"}

\* C31: the drain is the first cleanup registered, so it is the last one
\* run: when it starts every other cleanup registered has run, and after it
\* no cleanup runs and no delete is issued.
C31_DrainRunsLast ==
    /\ Registered # <<>> => Registered[1] = <<"_wait_for_cleanups", 0>>
    /\ \A d \in DrainRuns :
           /\ Cardinality(RunsBefore(d)) = Len(Registered) - 1
           /\ \A j \in (d + 1)..Len(log) :
                  log[j].ev \notin {"run", "remote_delete", "register"}

C31_Witness ==
    /\ phase = "done"
    /\ \E d \in DrainRuns :
           /\ \E j \in RunsBefore(d) : log[j].call \in DeleteCalls
           /\ \E j \in RunsBefore(d) : log[j].call = "callable"
           /\ \E j \in (d + 1)..Len(log) : log[j].ev = "waiter"

\* The waiter calls of the drain, in the order of the log.
DrainWaiters == SelectSeq(log, LAMBDA e : e.ev = "waiter" /\ e.via = "drain")

\* C32, as stated: once teardown is over the drain has called, for each
\* wait descriptor registered, its waiter once with the registered id under
\* the registered name, and has made no other call.
C32_OneWaiterPerDescriptor ==
    phase = "done" => WaitKeysOf(DrainWaiters) = WaitsRegistered

\* C32, amended: the waiter calls of the drain are, in order, those of the
\* wait descriptors registered, each called with the registered id under
\* the registered name, all of them unless the last waiter called raised.
C32_WaitersUntilOneRaises ==
    /\ IsPrefix(WaitKeysOf(DrainWaiters), WaitsRegistered)
    /\ \A i \in 1..(Len(DrainWaiters) - 1) : DrainWaiters[i].out = "ok"
    /\ phase = "done"
       => \/ WaitKeysOf(DrainWaiters) = WaitsRegistered
          \/ /\ DrainWaiters # <<>>
             /\ Last(DrainWaiters).out = "TimeoutException"

C32_Witness ==
    /\ phase = "done"
    /\ Len(WaitsRegistered) = 2
    /\ WaitKeysOf(DrainWaiters) = WaitsRegistered
    /\ \E i, j \in 1..2 : WaitsRegistered[i][3] # WaitsRegistered[j][3]

\* The start of the test an event of the log belongs to (0: the first test).
TestOf(i) ==
    IF \E k \in 1..i : log[k].ev = "test"
    THEN CHOOSE k \in 1..i :
             log[k].ev = "test" /\ \A d \in (k + 1)..i : log[d].ev # "test"
    ELSE 0
TestStarts == {0} \cup Positions(LAMBDA e : e.ev = "test")
WaitsRegisteredIn(s) ==
    {j \in 1..Len(log) : log[j].ev = "register_wait" /\ TestOf(j) = s}
DrainWaitersIn(s) ==
    {j \in 1..Len(log) : /\ log[j].ev = "waiter" /\ log[j].via = "drain"
                         /\ TestOf(j) = s}
TestOver(s) ==
    \/ \E k \in (s + 1)..Len(log) : log[k].ev = "test"
    \/ phase = "done"

\* C33: the drain of a test calls only waiters of wait descriptors that
\* this test registered, and it does call the first of them: what the tests
\* before it left in their lists, drained or not, is not there.
C33_WaitsOwnedByTest ==
    \A s \in TestStarts :
        /\ \A i \in DrainWaitersIn(s) :
               \E j \in WaitsRegisteredIn(s) :
                   j < i /\ WaitKey(log[j]) = WaitKey(log[i])
        /\ TestOver(s) /\ WaitsRegisteredIn(s) # {}
           => DrainWaitersIn(s) # {}
        /\ \A k \in 1..Len(errors) : errors[k].exc # "KeyError"

C33_Witness ==
    /\ phase = "done"
    /\ Cardinality(WaitsRegisteredIn(0)) = 2
    /\ Cardinality(DrainWaitersIn(0)) = 1
    /\ \E s \in TestStarts : s # 0 /\ DrainWaitersIn(s) # {}

\* The calls of the waits on a node in the log, and the polls of one call.
WaitNodeCalls == Positions(LAMBDA e : e.ev = "call" /\ e.call = "wait_node")
StateWaitCalls ==
    Positions(LAMBDA e : /\ e.ev = "call"
                         /\ e.call \in {"wait_power_state",
                                        "wait_provisioning_state"})
PollsIn(c) == {j \in CheckSeg(c) : log[j].ev = "poll"}
TimeoutIn(c) == \E j \in CheckSeg(c) : log[j].ev = "timeout"

\* C34: in wait_node a lookup that raises NotFound is a false result of the
\* poll: the polling goes on until the timeout and the wait never ends in
\* NotFound; in wait_power_state and wait_provisioning_state a lookup that
\* raises NotFound is the last one, and the wait ends in NotFound and not
\* in a timeout.
C34_NotFoundToleratedInWaitNodeOnly ==
    /\ \A c \in WaitNodeCalls :
           /\ \A j \in PollsIn(c) :
                  log[j].out = "false after NotFound"
                  => \/ \E i \in PollsIn(c) : i > j
                     \/ Cardinality(PollsIn(c)) = PollTicks /\ TimeoutIn(c)
           /\ ~FipRaised(c, "NotFound")
           /\ \A j \in PollsIn(c) : log[j].out # "NotFound"
    /\ \A c \in StateWaitCalls :
           \A j \in PollsIn(c) :
               /\ log[j].out # "false after NotFound"
               /\ log[j].out = "NotFound"
                  => /\ \A i \in PollsIn(c) : i <= j
                     /\ FipRaised(c, "NotFound")
                     /\ ~TimeoutIn(c)

C34_Witness ==
    /\ phase = "done"
    /\ \E c \in WaitNodeCalls :
           /\ log[c + 1].out = "false after NotFound"
           /\ \E j \in PollsIn(c) : log[j].out = "true"
    /\ \E c \in StateWaitCalls :
           /\ Cardinality(PollsIn(c)) = 1
           /\ \E j \in PollsIn(c) : log[j].out = "NotFound"

\* The checks made by check_public_network_connectivity, and the captures
\* that followed one of them.
PublicChecks ==
    {c \in Checks : /\ c > 1 /\ log[c - 1].ev = "call"
                    /\ log[c - 1].call = "check_public_network_connectivity"}
ConsoleIn(c) ==
    {j \in CheckSeg(c) : /\ log[j].ev = "capture"
                         /\ log[j].call = "_log_console_output"}
NetDebugIn(c) ==
    {j \in CheckSeg(c) : log[j].ev = "capture" /\ log[j].call = "log_net_debug"}
SshTimedOutIn(c) == {j \in SshIn(c) : log[j].out = "SSHTimeout"}

\* C35: when a check of check_public_network_connectivity fails, the
\* console output is captured and the network debug is captured exactly
\* once: right after the ssh attempt that timed out, or, for any other
\* failure, in the handler after the console output.
C35_CapturesOncePerFailure ==
    \A c \in PublicChecks :
        LastCall(c) /\ BodyFailed
        => /\ Cardinality(ConsoleIn(c)) = 1
           /\ Cardinality(NetDebugIn(c)) = 1
           /\ \A n \in NetDebugIn(c) :
                  IF SshTimedOutIn(c) # {}
                  THEN (n - 1) \in SshTimedOutIn(c)
                  ELSE (n - 1) \in ConsoleIn(c)

\* The server deletes that terminate_instance issued, and the servers whose
\* termination wait create_server registered as a cleanup of its own.
Terminations ==
    Positions(LAMBDA e : /\ e.ev = "remote_delete" /\ e.via = "body"
                         /\ e.call = "delete_server")
SyncWaitRegistered(r) ==
    \E j \in 1..Len(log) : /\ log[j].ev = "register" /\ log[j].res = r
                           /\ log[j].call = "wait_for_server_termination"
IsNodeWait(i, call, r) ==
    /\ i <= Len(log)
    /\ log[i].ev = "ready_wait" /\ log[i].call = call /\ log[i].res = r
ServerDeleteErrors ==
    {k \in 1..Len(errors) : /\ errors[k].phase = "teardown"
                            /\ errors[k].call = "delete_server"}

\* C36: terminate_instance deletes the server, then waits for the power
\* state, then for the provision state, each step only when the one before
\* passed; at teardown the delete that create_server registered is still
\* issued once and its termination wait still runs, and a teardown delete
\* answered NotFound is no failure of the test.
C36_TerminateThenTeardown ==
    /\ \A i \in Terminations :
           LET r == log[i].res IN
           /\ log[i].out = "ok" <=> IsNodeWait(i + 1, "wait_power_state", r)
           /\ (IsNodeWait(i + 1, "wait_power_state", r)
               /\ log[i + 1].out = "ok")
              <=> IsNodeWait(i + 2, "wait_provisioning_state", r)
           /\ phase = "done"
              => /\ Cardinality(TeardownDeletesOf(r)) = 1
                 /\ SyncWaitRegistered(r)
                    => Cardinality(WaitsOf(r, "cleanup")) = 1
    /\ \A j \in 1..Len(log) :
           log[j].ev = "ready_wait"
           /\ log[j].call \in {"wait_power_state", "wait_provisioning_state"}
           => \E i \in Terminations : /\ log[i].res = log[j].res
                                      /\ j \in {i + 1, i + 2}
    /\ Cardinality(ServerDeleteErrors)
           = Cardinality(Positions(LAMBDA e :
                 /\ e.ev = "remote_delete" /\ e.via = "cleanup"
                 /\ e.call = "delete_server"
                 /\ e.out \notin {"ok", "NotFound"}))

C36_Witness ==
    /\ phase = "done"
    /\ \E i \in Terminations :
           /\ IsNodeWait(i + 2, "wait_provisioning_state", log[i].res)
           /\ log[i + 2].out = "ok"
           /\ SyncWaitRegistered(log[i].res)
           /\ \E j \in TeardownDeletesOf(log[i].res) : log[j].out = "NotFound"
    /\ ~TeardownFailed

\* The calls of create_networks made with the bare-metal driver enabled.
BaremetalNetworks ==
    {c \in Positions(LAMBDA e : e.ev = "call" /\ e.call = "create_networks") :
        log[c].param = "baremetal"}
InBaremetalNetworks(j) == \E c \in BaremetalNetworks : j \in CheckSeg(c)

\* C37: with the bare-metal driver enabled create_networks lists the
\* networks once, creates nothing and registers nothing; it returns the
\* listed network with no subnet and no router, or the test body fails when
\* the listing failed or listed no network; every delete of
\* the teardown is of a resource that another call created, never of the
\* shared network.
C37_BaremetalNetworksShared ==
    /\ \A c \in BaremetalNetworks :
           /\ \A j \in CheckSeg(c) :
                  log[j].ev \in {"call", "remote_call", "return"}
           /\ Cardinality(RemoteCallsIn(c, "list_networks")) = 1
           /\ \A j \in CheckSeg(c) : log[j].ev = "remote_call"
                                     => log[j].call = "list_networks"
           /\ \A j \in Returned(c) :
                  /\ log[j].param = "subnet=None router=None"
                  /\ \A k \in RemoteCallsIn(c, "list_networks") :
                         log[k].out = "ok" /\ log[k].param # "empty"
           /\ Returned(c) = {} => LastCall(c) /\ BodyFailed
    /\ \A j \in 1..Len(log) :
           log[j].ev = "remote_delete"
           => /\ log[j].res \in 1..Len(remote)
              /\ \E i \in 1..(j - 1) : /\ log[i].ev = "create"
                                       /\ log[i].res = log[j].res
                                       /\ ~InBaremetalNetworks(i)

C37_Witness ==
    /\ phase = "done"
    /\ \E c \in BaremetalNetworks : Returned(c) # {}
    /\ \E j \in 1..Len(log) : log[j].ev = "remote_delete"

\* The calls of create_floating_ip without port_id, and what they did.
FloatingIpLookups ==
    {c \in Positions(LAMBDA e : /\ e.ev = "call"
                                /\ e.call = "create_floating_ip") :
        log[c].param = "no port_id"}
PortsListed(c, shown) ==
    \E j \in RemoteCallsIn(c, "list_ports") :
        log[j].out = "ok" /\ log[j].param \in shown
CreatesIn(c) == {j \in CheckSeg(c) : log[j].ev = "create"}

\* C38: create_floating_ip without port_id lists the ports of the server
\* once; it asks for a floating ip only after a listing that showed one
\* port; when the listing showed no port or several the call fails with an
\* AssertionError, no create was asked for and nothing was registered; a
\* delete is registered only for a floating ip that was created.
C38_FloatingIpNeedsOnePort ==
    \A c \in FloatingIpLookups :
        /\ Cardinality(RemoteCallsIn(c, "list_ports")) = 1
        /\ CreatesIn(c) # {}
           => /\ PortsListed(c, {"one port"})
              /\ \A j \in CreatesIn(c) :
                     /\ log[j].call = "floatingip"
                     /\ \A k \in RemoteCallsIn(c, "list_ports") : k < j
        /\ PortsListed(c, {"no port", "several ports"})
           => /\ CreatesIn(c) = {} /\ RegistersIn(c) = {}
              /\ FipRaised(c, "AssertionError")
              /\ \A r \in 1..Len(remote) : remote[r].kind # "floatingip"
                     \/ \E i \in 1..Len(log) :
                            /\ log[i].ev = "create" /\ log[i].res = r
                            /\ i \notin CheckSeg(c)
        /\ Cardinality(RegistersIn(c))
               = Cardinality({j \in CreatesIn(c) : log[j].out = "ok"})

C38_Witness ==
    /\ phase = "done"
    /\ \E c \in FloatingIpLookups :
           PortsListed(c, {"one port"}) /\ RegistersIn(c) # {}
    /\ \E c \in FloatingIpLookups : PortsListed(c, {"several ports"})

\* The direct calls of the network API's _create_loginable_secgroup_rule,
\* the creates each asked for, and the four rules in the order the spec
\* gives them.
NetLoginableCalls ==
    {c \in Positions(LAMBDA e : /\ e.ev = "call"
                                /\ e.call = "_create_loginable_secgroup_rule") :
        cls = "NetworkScenarioTest"}
RuleCreates(c) ==
    {j \in Seg(c) : log[j].ev = "create" /\ log[j].call = "security_group_rule"}
Nth(c, j) == Cardinality({k \in RuleCreates(c) : k <= j})
SshAndPingRules ==
    << <<"tcp", "ingress">>, <<"tcp", "egress">>,
       <<"icmp", "ingress">>, <<"icmp", "egress">> >>
ResOf(c, ev, outs) ==
    LET e == SelectSeq(SubSeq(log, c, Len(log)),
                       LAMBDA x : x.ev = ev /\ x.out \in outs)
        mine == Cardinality({j \in Seg(c) : /\ log[j].ev = ev
                                            /\ log[j].out \in outs})
    IN [k \in 1..mine |-> e[k].res]
LoginableReturned(c) == ~(LastCall(c) /\ BodyFailed)

\* C39: the network _create_loginable_secgroup_rule asks for at most four
\* rules and, when it returns, for exactly four: tcp ingress, tcp egress,
\* icmp ingress, icmp egress, in that order, in the group it was called
\* with; the list it returns is the rules whose create succeeded, in the
\* order they were made, each with the direction asked for; the cleanups it
\* registered are the deletes of the rules whose create succeeded.
C39_LoginableRules ==
    \A c \in NetLoginableCalls :
        /\ Cardinality(RuleCreates(c)) <= Len(SshAndPingRules)
        /\ \A j \in RuleCreates(c) :
               log[j].out = "ok"
               => /\ remote[log[j].res].attr[1] = log[c].res
                  /\ remote[log[j].res].attr[2] = SshAndPingRules[Nth(c, j)][1]
        /\ ResOf(c, "register", {"wrapped", "bare"})
               = ResOf(c, "create", {"ok"})
        /\ \A j \in Seg(c) : log[j].ev = "register"
               => log[j].call = "delete_security_group_rule"
        /\ IF LoginableReturned(c)
           THEN /\ Cardinality(RuleCreates(c)) = Len(SshAndPingRules)
                /\ ResOf(c, "return", {""}) = ResOf(c, "create", {"ok"})
                /\ \A j \in RuleCreates(c) :
                       log[j].out = "ok"
                       => remote[log[j].res].attr[3]
                              = SshAndPingRules[Nth(c, j)][2]
           ELSE ResOf(c, "return", {""}) = <<>>

C39_Witness ==
    /\ phase = "done"
    /\ \E c \in NetLoginableCalls :
           /\ LoginableReturned(c)
           /\ Len(ResOf(c, "return", {""})) = 3
           /\ \E j \in RuleCreates(c) : log[j].param = "exists"
    /\ \E c \in NetLoginableCalls :
           \E j \in RuleCreates(c) : log[j].param = "redirected"

\* The calls of _check_tenant_network_connectivity, the address checks of
\* one call in the order of the log, and whether a check or the call raised;
\* the server of the model has two addresses.
TenantCalls ==
    Positions(LAMBDA e : /\ e.ev = "call"
                         /\ e.call = "_check_tenant_network_connectivity")
ChecksOf(c) == {k \in Seg(c) : log[k].ev = "check"}
CheckRaised(k) ==
    \E j \in CheckSeg(k) :
        \/ log[j].ev = "assert" /\ log[j].out = "AssertionError"
        \/ log[j].ev = "ssh" /\ log[j].out # "ok"
CallRaised(c) ==
    /\ BodyFailed
    /\ \A d \in (c + 1)..Len(log) : log[d].ev # "call"

\* C40: with tenant networks not reachable _check_tenant_network_connectivity
\* does nothing (no check, no ping, no ssh, no capture) and returns;
\* otherwise it checks the addresses of the server in order, goes on to the
\* next address exactly when the check of this one passed, and raises when
\* a check failed: it returns only when every address was checked.
C40_TenantConnectivity ==
    \A c \in TenantCalls :
        IF log[c].param = "not reachable"
        THEN Seg(c) = {c} /\ ~CallRaised(c)
        ELSE /\ \A k \in ChecksOf(c) :
                    LET n == Cardinality({d \in ChecksOf(c) : d <= k}) IN
                    /\ n <= 2
                    /\ log[k].res = log[c].res + n - 1
                    /\ CheckRaised(k)
                       => /\ \A d \in ChecksOf(c) : d <= k
                          /\ CallRaised(c)
                    /\ ~CheckRaised(k) /\ n < 2
                       => \E d \in ChecksOf(c) : d > k
             /\ ChecksOf(c) # {}
             /\ CallRaised(c) <=> \E k \in ChecksOf(c) : CheckRaised(k)
             /\ ~CallRaised(c)
                => Cardinality(ChecksOf(c)) = 2

C40_Witness ==
    /\ phase = "done"
    /\ \E c \in TenantCalls : log[c].param = "not reachable"
    /\ \E c \in TenantCalls :
           /\ log[c].param = "reachable"
           /\ Cardinality(ChecksOf(c)) = 1 /\ CallRaised(c)

====
